---- MODULE Spec2Model ----
(***************************************************************************)
(* Model of the MMP validator: the XSD-driven validation engine of         *)
(* xsd-parser.js (validateAgainstComplexType, validateValue) and the       *)
(* driver of validator.js (validateXMLAgainstSchema,                       *)
(* checkXMLWellFormedness, validateStructure, validateElementDynamic,      *)
(* validateInlineStructure, validateNoUnknownElements).                    *)
(*                                                                         *)
(* Representation.                                                         *)
(*  - A JavaScript string that the code inspects character by character    *)
(*    (element text, restriction values) is a sequence of one-character    *)
(*    strings: "-1" is << "-", "1" >>.  Names (tags, type names, diagnostic *)
(*    kinds) are only compared for equality and are TLA+ strings.          *)
(*  - A document text is the sequence of its markup tokens; a token's      *)
(*    index stands for its character offset.                               *)
(*  - A number is a decimal fraction [t |-> "num", n, d] (n/d, d a power   *)
(*    of ten), NaN is [t |-> "nan"].                                       *)
(*  - null/undefined object references are the records Null / Undefined.   *)
(*  - A diagnostic {type, message, location} is the record                 *)
(*    [type, msg, path, name, value, at, allowed]: msg names the message   *)
(*    template, path/name/value/at (a position or line)/allowed (the list  *)
(*    of enumeration members) are the parts the template and location      *)
(*    embed.  The "Linea N" hint that findLocation appends to the location *)
(*    of a structural diagnostic is left out.                              *)
(*  - The routines return the list of what they did: diagnostics, and      *)
(*    entries of type "call" that record that a routine or a forEach       *)
(*    callback ran on a node (history only, never part of the result).     *)
(*  - The XSD document handed to parseXSDSchema is a tree of records       *)
(*    [tag, attributes, kids]; the schema parsed of it has the shape of    *)
(*    the loader's object: simpleTypes, complexTypes, rootElement.         *)
(*                                                                         *)
(* Specifications: Spec (the page), SpecValue (validateValue on its own),  *)
(* SpecDescent (validateFile under a schema with every kind of             *)
(* declaration), SpecLoader (loadXSDSchema over XSD documents), SpecCalls  *)
(* (loadXSDSchema and validateFile one call or return at a time),          *)
(* SpecStructure (validateFile under each schema the loader can leave),    *)
(* SpecThrow (validateFile under a schema whose pattern does not compile), *)
(* SpecBatch (validateFile over a list of files, suspended at each read    *)
(* while the handlers of the list run) and SpecAdding (the same, with      *)
(* addFiles as the only such handler).                                     *)
(*  - An exception is an entry of type "call" named "throw" in the list a  *)
(*    routine returns; the try block of validateXMLAgainstSchema cuts the  *)
(*    list there.                                                          *)
(***************************************************************************)
EXTENDS Integers, Sequences, FiniteSets, TLC

VARIABLES
    XSD_SCHEMA,      \* validator.js: let XSD_SCHEMA (FALSE = null, TRUE = text loaded)
    PARSED_SCHEMA,   \* validator.js: let PARSED_SCHEMA (Null or a schema)
    files,           \* validator.js: let files, entries {file, status, errors}
    log,             \* history: what the last validateXMLAgainstSchema call did
    previous,        \* history: the result stored by the validation before the last
    vvValue,         \* validateValue's argument value
    vvRules,         \* validateValue's argument typeRules
    vvErrors,        \* what validateValue pushed on errors
    vvDone,          \* validateValue has been applied to (vvValue, vvRules)
    xsdDocument,          \* xsd-parser.js: const xsdDoc, the document parsed of the XSD text
    calls            \* the activations still to run, innermost first

vars == << XSD_SCHEMA, PARSED_SCHEMA, files, log, previous,
           vvValue, vvRules, vvErrors, vvDone, xsdDocument, calls >>

----------------------------------------------------------------------------
(* JavaScript values *)

Null == [t |-> "null"]

Undefined == [t |-> "undefined"]

NaN == [t |-> "nan"]

Num(n, d) == [t |-> "num", n |-> n, d |-> d]

Str(s) == [t |-> "str", s |-> s]

Digits == {"0", "1", "2", "3", "4", "5", "6", "7", "8", "9"}

DigitVal(c) ==
    CASE c = "0" -> 0 [] c = "1" -> 1 [] c = "2" -> 2 [] c = "3" -> 3
      [] c = "4" -> 4 [] c = "5" -> 5 [] c = "6" -> 6 [] c = "7" -> 7
      [] c = "8" -> 8 [] c = "9" -> 9

WhiteSpace == {" ", "\n"}

\* s[a..b], empty when a > b
Sub(s, a, b) == IF a > b THEN << >> ELSE SubSeq(s, a, b)

RECURSIVE FlattenFrom(_, _)
FlattenFrom(ss, i) ==
    IF i \notin DOMAIN ss THEN << >> ELSE ss[i] \o FlattenFrom(ss, i + 1)

\* concatenation of a sequence of sequences (the order of successive pushes)
Flatten(ss) == FlattenFrom(ss, 1)

RECURSIVE Pow10(_)
Pow10(k) == IF k = 0 THEN 1 ELSE 10 * Pow10(k - 1)

RECURSIVE DigitsValue(_)
\* value of a run of decimal digits
DigitsValue(ds) ==
    IF ds = << >> THEN 0
    ELSE 10 * DigitsValue(Sub(ds, 1, Len(ds) - 1)) + DigitVal(ds[Len(ds)])

\* length of the longest prefix of s made of digits
DigitRun(s) == Cardinality({k \in 1..Len(s) : \A i \in 1..k : s[i] \in Digits})

\* number of leading white space characters
LeadingSpace(s) == Cardinality({k \in 1..Len(s) : \A i \in 1..k : s[i] \in WhiteSpace})

\* number of trailing white space characters
TrailingSpace(s) ==
    Cardinality({k \in 1..Len(s) : \A i \in (Len(s) - k + 1)..Len(s) : s[i] \in WhiteSpace})

\* String.prototype.trim
trim(s) == Sub(s, LeadingSpace(s) + 1, Len(s) - TrailingSpace(s))

\* s without its leading white space
SkipSpace(s) == Sub(s, LeadingSpace(s) + 1, Len(s))

\* the sign a numeric text starts with
SignOf(u) == IF u # << >> /\ u[1] = "-" THEN -1 ELSE 1

\* a numeric text without its sign
Unsign(u) == IF u # << >> /\ u[1] \in {"-", "+"} THEN Tail(u) ELSE u

\* the integer that the first k characters of body, all digits, stand for
IntOfRun(sgn, body, k) ==
    IF k = 0 THEN NaN ELSE Num(sgn * DigitsValue(Sub(body, 1, k)), 1)

\* the global parseInt(string): white space, sign, the longest run of digits
parseInt(s) ==
    IntOfRun(SignOf(SkipSpace(s)), Unsign(SkipSpace(s)), DigitRun(Unsign(SkipSpace(s))))

\* the digits after a leading ".", none when rest does not start with "."
FractionDigits(rest) ==
    IF rest # << >> /\ rest[1] = "." THEN Sub(Tail(rest), 1, DigitRun(Tail(rest)))
    ELSE << >>

\* the number with integer digits int and fraction digits frac
FloatOfParts(sgn, int, frac) ==
    IF int = << >> /\ frac = << >> THEN NaN
    ELSE Num(sgn * (DigitsValue(int) * Pow10(Len(frac)) + DigitsValue(frac)),
             Pow10(Len(frac)))

FloatOfRun(sgn, body, k) ==
    FloatOfParts(sgn, Sub(body, 1, k), FractionDigits(Sub(body, k + 1, Len(body))))

\* the global parseFloat(string): white space, sign, the longest prefix that
\* is a decimal literal (digits, optionally "." and digits; or "." digits).
\* Exponents do not occur in the alphabet of the model.
parseFloat(s) ==
    FloatOfRun(SignOf(SkipSpace(s)), Unsign(SkipSpace(s)), DigitRun(Unsign(SkipSpace(s))))

\* what follows the k leading digits of a decimal literal: nothing, or "."
\* and digits only (no digit at all is no literal)
IsDecimalRest(k, rest) ==
    \/ rest = << >> /\ k > 0
    \/ /\ rest # << >>
       /\ rest[1] = "."
       /\ DigitRun(Tail(rest)) = Len(rest) - 1
       /\ (k > 0 \/ Len(rest) > 1)

IsDecimalRun(body, k) == IsDecimalRest(k, Sub(body, k + 1, Len(body)))

\* ToNumber on a trimmed string: 0 for the empty string, NaN unless the whole
\* of it is a decimal literal
NumberOfTrimmed(u) ==
    IF u = << >> THEN Num(0, 1)
    ELSE IF IsDecimalRun(Unsign(u), DigitRun(Unsign(u))) THEN parseFloat(u)
    ELSE NaN

\* ToNumber applied to a string operand of < or > (StringToNumber)
StringToNumber(s) == NumberOfTrimmed(trim(s))

ToNumber(x) == IF x.t = "str" THEN StringToNumber(x.s) ELSE x

\* x < y on numbers: false when either is NaN
NumLess(x, y) == x.t = "num" /\ y.t = "num" /\ x.n * y.d < y.n * x.d

\* a < b on two operands that are not both strings: numeric, false with NaN
JsLess(a, b) == NumLess(ToNumber(a), ToNumber(b))

\* a > b
JsGreater(a, b) == JsLess(b, a)

----------------------------------------------------------------------------
(* Diagnostics and history entries *)

Diag(type, msg, path, name, value) ==
    [type |-> type, msg |-> msg, path |-> path, name |-> name,
     value |-> value, at |-> 0, node |-> 0, defs |-> << >>, allowed |-> << >>,
     by |-> ""]

\* history entry: routine or callback `what` ran on DOM node `node`, with
\* the element definitions `defs` it iterates over
Call(what, path, name, node, defs) ==
    [type |-> "call", msg |-> what, path |-> path, name |-> name,
     value |-> << >>, at |-> 0, node |-> node, defs |-> defs, allowed |-> << >>,
     by |-> ""]

\* history entry: the forEach callback of routine `by` ran on DOM node `node`,
\* matched by the declaration elemDef, with childPath `path`
ChildCall(by, path, elemDef, node) ==
    [Call("child", path, elemDef.name, node, << elemDef >>) EXCEPT !.by = by]

\* history entry: an exception with that message was thrown
Thrown(message) == Call("throw", << >>, message, 0, << >>)

IsThrow(e) == e.type = "call" /\ e.msg = "throw"

IsDiag(e) == e.type # "call"

\* the diagnostics of a history, in order
DiagsOf(h) == SelectSeq(h, IsDiag)

\* one step of a path: `${name}` or `${name}[${index}]` (index -1: no suffix)
Seg(name, index) == [n |-> name, i |-> index]

----------------------------------------------------------------------------
(* Document text: a sequence of tokens *)

Open(n) == [k |-> "open", n |-> n, v |-> << >>]

Close(n) == [k |-> "close", n |-> n, v |-> << >>]

SelfClosing(n) == [k |-> "self", n |-> n, v |-> << >>]

Text(v) == [k |-> "text", n |-> "", v |-> v]

Comment(v) == [k |-> "comment", n |-> "", v |-> v]

\* <n>v</n>
Leaf(n, v) == << Open(n), Text(v), Close(n) >>

\* <n>...</n> around the token sequence inner
Wrap(n, inner) == << Open(n) >> \o inner \o << Close(n) >>

RECURSIVE CountNewlines(_)
\* number of "\n" in a character sequence
CountNewlines(s) ==
    IF s = << >> THEN 0
    ELSE (IF Head(s) = "\n" THEN 1 ELSE 0) + CountNewlines(Tail(s))

RECURSIVE NewlinesIn(_)
\* number of "\n" in a stretch of document text
NewlinesIn(toks) ==
    IF toks = << >> THEN 0
    ELSE CountNewlines(Head(toks).v) + NewlinesIn(Tail(toks))

\* getLineNumber(text, position): text.substring(0, position).split('\n').length
getLineNumber(text, position) ==
    NewlinesIn(Sub(text, 1, IF position > Len(text) THEN Len(text) ELSE position)) + 1

IsTag(tok) == tok.k \in {"open", "close", "self"}

IsSpan(tok) == tok.k # "comment"

\* xmlString.replace(/<!--[\s\S]*?-->/g, '') ... : the text without its comments
cleanXml(xml) == SelectSeq(xml, IsSpan)

WfDiag(msg, name, expected, at) ==
    [type |-> "Error de Estructura XML", msg |-> msg, path |-> expected,
     name |-> name, value |-> << >>, at |-> at, node |-> 0, defs |-> << >>,
     allowed |-> << >>, by |-> ""]

unclosedTags_forgotten(xml, stack) == << >>

unclosedTags_innermostFirst(xml, stack) ==
    [j \in 1..Len(stack) |->
        WfDiag("Etiqueta sin cerrar", stack[Len(stack) + 1 - j].name, << >>,
               getLineNumber(xml, stack[Len(stack) + 1 - j].position))]

\* "Check for unclosed tags": stack.forEach(tag => errors.push(...)), from the
\* bottom of the stack up
unclosedTags(xml, stack) ==
    [j \in 1..Len(stack) |->
        WfDiag("Etiqueta sin cerrar", stack[j].name, << >>,
               getLineNumber(xml, stack[j].position))]

RECURSIVE wfScan(_, _, _, _, _)
\* the while loop of checkXMLWellFormedness over the tags of clean, from the
\* i-th token on; a token's position (match.index) is i - 1; then the
\* stack.forEach that reports what is left open
wfScan(xml, clean, i, stack, errs) ==
    IF i > Len(clean)
    THEN errs \o unclosedTags(xml, stack)
    ELSE LET tok == clean[i]
             position == i - 1
         IN  IF ~IsTag(tok) \/ tok.k = "self"
             THEN wfScan(xml, clean, i + 1, stack, errs)
             ELSE IF tok.k = "close"
             THEN IF stack = << >>
                  THEN wfScan(xml, clean, i + 1, stack,
                         Append(errs, WfDiag("Etiqueta de cierre sin apertura",
                                             tok.n, << >>, position)))
                  ELSE LET lastOpened == stack[Len(stack)]
                           popped == Sub(stack, 1, Len(stack) - 1)
                       IN  IF lastOpened.name # tok.n
                           THEN wfScan(xml, clean, i + 1, popped,
                                  Append(errs, WfDiag("Etiquetas no coinciden", tok.n,
                                                      << Seg(lastOpened.name, -1) >>,
                                                      getLineNumber(xml, position))))
                           ELSE wfScan(xml, clean, i + 1, popped, errs)
             ELSE wfScan(xml, clean, i + 1,
                         Append(stack, [name |-> tok.n, position |-> position]), errs)

checkXMLWellFormedness(xmlString_) ==
    wfScan(xmlString_, cleanXml(xmlString_), 1, << >>, << >>)

----------------------------------------------------------------------------
(* The DOM that DOMParser.parseFromString(xmlString, 'text/xml') builds *)

RECURSIVE domScan(_, _, _, _, _)
\* nodes in document order, each [tagName, parent, first, last]: parent is a
\* node index (0: none), first/last the tokens of its start and end tag.
\* error: a tag is left open or closed wrongly, character data or a second
\* element stands outside the root element (the parser answers with a
\* parsererror document)
domScan(xml, i, stack, nodes, error) ==
    IF i > Len(xml)
    THEN [error |-> error \/ stack # << >>
                    \/ Cardinality({j \in 1..Len(nodes) : nodes[j].parent = 0}) # 1,
          nodes |-> nodes]
    ELSE LET tok == xml[i]
             top == IF stack = << >> THEN 0 ELSE stack[Len(stack)]
             roots == Cardinality({j \in 1..Len(nodes) : nodes[j].parent = 0})
         IN  CASE tok.k = "open" ->
                    domScan(xml, i + 1, Append(stack, Len(nodes) + 1),
                            Append(nodes, [tagName |-> tok.n, parent |-> top,
                                           first |-> i, last |-> 0]),
                            error \/ (top = 0 /\ roots > 0))
               [] tok.k = "self" ->
                    domScan(xml, i + 1, stack,
                            Append(nodes, [tagName |-> tok.n, parent |-> top,
                                           first |-> i, last |-> i]),
                            error \/ (top = 0 /\ roots > 0))
               [] tok.k = "close" ->
                    IF top = 0
                    THEN domScan(xml, i + 1, stack, nodes, TRUE)
                    ELSE domScan(xml, i + 1, Sub(stack, 1, Len(stack) - 1),
                                 [nodes EXCEPT ![top].last = i],
                                 error \/ nodes[top].tagName # tok.n)
               [] tok.k = "text" ->
                    domScan(xml, i + 1, stack, nodes,
                            error \/ (top = 0 /\ trim(tok.v) # << >>))
               [] OTHER -> domScan(xml, i + 1, stack, nodes, error)

parseFromString(xmlString_) ==
    LET r == domScan(xmlString_, 1, << >>, << >>, FALSE)
    IN  [xml |-> xmlString_, error |-> r.error, nodes |-> r.nodes]

\* xmlDoc.documentElement
documentElement(doc) == 1

tagName(doc, e) == doc.nodes[e].tagName

RECURSIVE TextOf(_)
TextOf(toks) ==
    IF toks = << >> THEN << >>
    ELSE (IF Head(toks).k = "text" THEN Head(toks).v ELSE << >>) \o TextOf(Tail(toks))

\* element.textContent: the text of the element and of all its descendants
textContent(doc, e) == TextOf(Sub(doc.xml, doc.nodes[e].first, doc.nodes[e].last))

\* element.querySelectorAll(`:scope > ${name}`): the direct children of e
\* with that tag, in document order
querySelectorAll(doc, e, name) ==
    SelectSeq([j \in 1..Len(doc.nodes) |-> j],
              LAMBDA j : doc.nodes[j].parent = e /\ doc.nodes[j].tagName = name)

RECURSIVE IsDescendant(_, _, _)
IsDescendant(doc, j, e) ==
    doc.nodes[j].parent # 0
    /\ (doc.nodes[j].parent = e \/ IsDescendant(doc, doc.nodes[j].parent, e))

querySelectorAllStar_children(doc, e) ==
    SelectSeq([j \in 1..Len(doc.nodes) |-> j], LAMBDA j : doc.nodes[j].parent = e)

\* root.querySelectorAll('*'): every descendant of e, in document order
querySelectorAllStar(doc, e) ==
    SelectSeq([j \in 1..Len(doc.nodes) |-> j], LAMBDA j : IsDescendant(doc, j, e))

RECURSIVE getElementPath(_, _)
\* the tags from the root down to e, to be joined with ' > '
getElementPath(doc, e) ==
    IF e = 0 THEN << >>
    ELSE Append(getElementPath(doc, doc.nodes[e].parent), Seg(doc.nodes[e].tagName, -1))

----------------------------------------------------------------------------
(* Simple type rules and validateValue *)

\* s.includes(sub) for the base type names of the model
Includes(s, sub) ==
    << s, sub >> \in {<< "xs:integer", "integer" >>, << "xs:float", "float" >>,
                      << "xs:double", "double" >>, << "xs:decimal", "decimal" >>}

\* s.startsWith('xs:') for the type names of the model
StartsWithXs(s) ==
    s \in {"xs:integer", "xs:float", "xs:double", "xs:decimal", "xs:string",
           "xs:nonNegativeInteger"}

\* a regular expression source: a run of character classes, each matching one
\* character, with or without a leading ^ and a trailing $
RegExp(s, atoms, e) == [t |-> "re", s |-> s, e |-> e, atoms |-> atoms]

\* a pattern source that is no regular expression: new RegExp(source) throws
InvalidRegExp == [t |-> "invalid", s |-> FALSE, e |-> FALSE, atoms |-> << >>]

\* regex.test(value): some substring of value matches (the whole of it from
\* the start with ^, up to the end with $)
RegExpTest(re, value) ==
    \E a \in 1..(Len(value) + 1) :
        LET b == a + Len(re.atoms) - 1
        IN  /\ b <= Len(value)
            /\ re.s => a = 1
            /\ re.e => b = Len(value)
            /\ \A k \in 1..Len(re.atoms) : value[a + k - 1] \in re.atoms[k]

\* /^-?\d+$/.test(value)
IsIntLiteral(value) ==
    LET body == IF value # << >> /\ value[1] = "-" THEN Tail(value) ELSE value
    IN  body # << >> /\ \A i \in 1..Len(body) : body[i] \in Digits

\* /^-?\d*(\.\d+)?$/.test(value)
IsFloatLiteral(value) ==
    LET body == IF value # << >> /\ value[1] = "-" THEN Tail(value) ELSE value
        k    == DigitRun(body)
        rest == Sub(body, k + 1, Len(body))
    IN  rest = << >>
        \/ (rest[1] = "." /\ Len(rest) >= 2 /\ DigitRun(Tail(rest)) = Len(rest) - 1)

Restrictions(enum, minInclusive, maxInclusive, pattern) ==
    [enum |-> enum, minInclusive |-> minInclusive,
     maxInclusive |-> maxInclusive, pattern |-> pattern]

\* restrictions: {}
NoRestrictions == Restrictions(<< >>, Undefined, Undefined, Undefined)

TypeRules(baseType, restrictions) ==
    [t |-> "rule", baseType |-> baseType, restrictions |-> restrictions]

\* parseValue(value, type) of the loader
parseValue(value, type) ==
    IF type # "" /\ Includes(type, "integer") THEN parseInt(value)
    ELSE IF type # "" /\ Includes(type, "float") THEN parseFloat(value)
    ELSE Str(value)

IsIntegerType(baseType) == baseType # "" /\ Includes(baseType, "integer")

IsFloatType(baseType) ==
    baseType # "" /\ (Includes(baseType, "float") \/ Includes(baseType, "double")
                      \/ Includes(baseType, "decimal"))

\* the base type check: the diagnostic it pushes before `return`, or none
baseTypeErrors(value, typeRules, path, fieldName) ==
    IF IsIntegerType(typeRules.baseType)
    THEN IF ~IsIntLiteral(value)
         THEN << Diag("Tipo de Dato Invalido", "entero", path, fieldName, value) >>
         ELSE << >>
    ELSE IF IsFloatType(typeRules.baseType)
    THEN IF ~IsFloatLiteral(value) \/ value = << >> \/ value = << "." >>
         THEN << Diag("Tipo de Dato Invalido", "decimal", path, fieldName, value) >>
         ELSE << >>
    ELSE << >>

enumIncludes_trimmed(enum, value) ==
    \E i \in 1..Len(enum) : trim(enum[i]) = trim(value)

\* restrictions.enum.includes(value): some member is the same string
enumIncludes(enum, value) == \E i \in 1..Len(enum) : enum[i] = value

\* the enumeration check; the message embeds restrictions.enum.join(', ')
enumErrors(value, typeRules, path, fieldName) ==
    IF typeRules.restrictions.enum # << >>
       /\ ~enumIncludes(typeRules.restrictions.enum, value)
    THEN << [Diag("Valor Invalido", "enum", path, fieldName, value)
               EXCEPT !.allowed = typeRules.restrictions.enum] >>
    ELSE << >>

belowMin_orEqual(numValue, minInclusive) ==
    minInclusive.t # "undefined" /\ ~JsGreater(numValue, minInclusive)

belowMin(numValue, minInclusive) ==
    minInclusive.t # "undefined" /\ JsLess(numValue, minInclusive)

aboveMax(numValue, maxInclusive) ==
    maxInclusive.t # "undefined" /\ JsGreater(numValue, maxInclusive)

rangeErrors(value, typeRules, path, fieldName) ==
    IF IsIntegerType(typeRules.baseType) \/ IsFloatType(typeRules.baseType)
    THEN LET numValue == IF Includes(typeRules.baseType, "integer")
                         THEN parseInt(value) ELSE parseFloat(value)
         IN  (IF belowMin(numValue, typeRules.restrictions.minInclusive)
              THEN << Diag("Valor Fuera de Rango", "min", path, fieldName, value) >>
              ELSE << >>)
             \o
             (IF aboveMax(numValue, typeRules.restrictions.maxInclusive)
              THEN << Diag("Valor Fuera de Rango", "max", path, fieldName, value) >>
              ELSE << >>)
    ELSE << >>

patternErrors(value, typeRules, path, fieldName) ==
    LET pattern == typeRules.restrictions.pattern
    IN  IF pattern.t = "undefined" THEN << >>
        ELSE IF pattern.t = "invalid"
        THEN << Thrown("Invalid regular expression") >>
        ELSE IF ~RegExpTest(pattern, value)
        THEN << Diag("Formato Invalido", "pattern", path, fieldName, value) >>
        ELSE << >>

afterBaseType_continues(typeErrs, rest) == typeErrs \o rest

\* what the later steps push when the base type check has pushed `typeErrs`
afterBaseType(typeErrs, rest) == IF typeErrs # << >> THEN typeErrs ELSE rest

validateValue(value, typeRules, path, fieldName) ==
    afterBaseType(baseTypeErrors(value, typeRules, path, fieldName),
                  enumErrors(value, typeRules, path, fieldName)
                  \o rangeErrors(value, typeRules, path, fieldName)
                  \o patternErrors(value, typeRules, path, fieldName))

----------------------------------------------------------------------------
(* The schema model that parseXSDSchema builds *)

\* an entry of `elements`: {type, required, minOccurs, maxOccurs, inlineType,
\* structure}, with the key it is stored under; maxOccurs 0 stands for Infinity
ElementDef(name, type, minOccurs, maxOccurs, inlineType, structure) ==
    [name |-> name, type |-> type, required |-> minOccurs # 0,
     minOccurs |-> minOccurs, maxOccurs |-> maxOccurs,
     inlineType |-> inlineType, structure |-> structure]

\* {elements: {...}, attributes: {}}; elements in insertion order
Structure(elements) == [t |-> "structure", elements |-> elements]

RootElement(name, structure) == [t |-> "root", name |-> name, structure |-> structure]

Schema(simpleTypes, complexTypes, rootElement) ==
    [t |-> "schema", simpleTypes |-> simpleTypes, complexTypes |-> complexTypes,
     rootElement |-> rootElement]

\* a truthy object reference
Present(x) == x.t \notin {"null", "undefined"}

----------------------------------------------------------------------------
(* Structural validation *)

missingRequired_counts(doc, element, elements, path) ==
    Flatten([k \in 1..Len(elements) |->
        IF Len(querySelectorAll(doc, element, elements[k].name)) < elements[k].minOccurs
        THEN << Diag("Campo Requerido Faltante", "campo", path, elements[k].name, << >>) >>
        ELSE << >>])

\* the loop "Check required elements": one diagnostic per required entry of
\* `elements` without a direct child of that name
missingRequired(doc, element, elements, path) ==
    Flatten([k \in 1..Len(elements) |->
        IF elements[k].required
           /\ querySelectorAll(doc, element, elements[k].name) = << >>
        THEN << Diag("Campo Requerido Faltante", "campo", path, elements[k].name, << >>) >>
        ELSE << >>])

\* the diagnostic for an empty value: pushed when the element is required
emptyValue(elemDef, childPath) ==
    IF elemDef.required
    THEN << Diag("Valor Requerido Faltante", "vacio", childPath, elemDef.name, << >>) >>
    ELSE << >>

\* `${path} > ${name}${count > 1 ? `[${index}]` : ''}`
ChildPath(path, name, index, count) ==
    Append(path, Seg(name, IF count > 1 THEN index ELSE -1))

\* validateValue(value, { baseType: type, restrictions: {} }, ...)
validateBuiltIn(value, type, path, fieldName) ==
    validateValue(value, TypeRules(type, NoRestrictions), path, fieldName)

unresolvedReference_reports(path, fieldName) ==
    << Diag("Tipo Desconocido", "tipo", path, fieldName, << >>) >>

\* a type reference that names no simple type, no xs: type and no complex
\* type: the chain of tests falls through without a push
unresolvedReference(path, fieldName) == << >>

afterMissing_stops(missing, rest) == IF missing # << >> THEN missing ELSE rest

\* the loop "Check required elements" followed by the loop "Validate existing
\* elements": both push on the same list
afterMissing(missing, rest) == missing \o rest

RECURSIVE validateAgainstComplexType(_, _, _, _, _)
RECURSIVE complexTypeChild(_, _, _, _, _, _, _)
RECURSIVE inlineSubChild(_, _, _, _, _, _, _)

\* xsd-parser.js: the callback of subChildElements.forEach, inside the inline
\* structure branch of validateAgainstComplexType
inlineSubChild(doc, subChildElement, subIndex, count, subElemDef, schema, childPath) ==
    LET subChildPath == ChildPath(childPath, subElemDef.name, subIndex, count)
        subValue == trim(textContent(doc, subChildElement))
    IN  << ChildCall("structure", subChildPath, subElemDef, subChildElement) >>
        \o (IF subValue = << >> THEN emptyValue(subElemDef, subChildPath)
            ELSE IF subElemDef.type # ""
            THEN IF subElemDef.type \in DOMAIN schema.simpleTypes
                 THEN validateValue(subValue, schema.simpleTypes[subElemDef.type],
                                    subChildPath, subElemDef.name)
                 ELSE IF StartsWithXs(subElemDef.type)
                 THEN validateBuiltIn(subValue, subElemDef.type, subChildPath,
                                      subElemDef.name)
                 ELSE IF subElemDef.type \in DOMAIN schema.complexTypes
                 THEN validateAgainstComplexType(doc, subChildElement, subElemDef.type,
                                                 schema, subChildPath)
                 ELSE unresolvedReference(subChildPath, subElemDef.name)
            ELSE << >>)

\* xsd-parser.js: the callback of childElements.forEach in validateAgainstComplexType
complexTypeChild(doc, childElement, index, count, elemDef, schema, path) ==
    LET childPath == ChildPath(path, elemDef.name, index, count)
        value == trim(textContent(doc, childElement))
        structure == elemDef.structure
    IN  << ChildCall("validateAgainstComplexType", childPath, elemDef, childElement) >>
        \o (IF value = << >> THEN emptyValue(elemDef, childPath)
            ELSE IF Present(elemDef.inlineType)
            THEN validateValue(value, elemDef.inlineType, childPath, elemDef.name)
            ELSE IF Present(structure)
            THEN << Call("structure", childPath, elemDef.name, childElement,
                         structure.elements) >>
                 \o afterMissing(
                        missingRequired(doc, childElement, structure.elements, childPath),
                        Flatten([k \in 1..Len(structure.elements) |->
                            LET subElemDef == structure.elements[k]
                                subChildElements ==
                                    querySelectorAll(doc, childElement, subElemDef.name)
                            IN  Flatten([j \in 1..Len(subChildElements) |->
                                    inlineSubChild(doc, subChildElements[j], j - 1,
                                                   Len(subChildElements), subElemDef,
                                                   schema, childPath)])]))
            ELSE IF elemDef.type # ""
            THEN IF elemDef.type \in DOMAIN schema.simpleTypes
                 THEN validateValue(value, schema.simpleTypes[elemDef.type],
                                    childPath, elemDef.name)
                 ELSE IF StartsWithXs(elemDef.type)
                 THEN validateBuiltIn(value, elemDef.type, childPath, elemDef.name)
                 ELSE IF elemDef.type \in DOMAIN schema.complexTypes
                 THEN validateAgainstComplexType(doc, childElement, elemDef.type,
                                                 schema, childPath)
                 ELSE unresolvedReference(childPath, elemDef.name)
            ELSE << >>)

\* xsd-parser.js: validateAgainstComplexType(element, typeName, schema, errors, path)
validateAgainstComplexType(doc, element, typeName, schema, path) ==
    IF typeName \notin DOMAIN schema.complexTypes THEN << >>
    ELSE LET typeElements == schema.complexTypes[typeName].elements
         IN  << Call("validateAgainstComplexType", path, typeName, element,
                     typeElements) >>
             \o afterMissing(
                    missingRequired(doc, element, typeElements, path),
                    Flatten([k \in 1..Len(typeElements) |->
                        LET elemDef == typeElements[k]
                            childElements == querySelectorAll(doc, element, elemDef.name)
                        IN  Flatten([j \in 1..Len(childElements) |->
                                complexTypeChild(doc, childElements[j], j - 1,
                                                 Len(childElements), elemDef, schema,
                                                 path)])]))

\* validator.js: the callback of childElements.forEach in validateInlineStructure
inlineStructureChild(doc, childElement, index, count, elemDef, schema, path) ==
    LET childPath == ChildPath(path, elemDef.name, index + 1, count)
        value == trim(textContent(doc, childElement))
    IN  << ChildCall("validateInlineStructure", childPath, elemDef, childElement) >>
        \o (IF value = << >> /\ elemDef.type = "" THEN emptyValue(elemDef, childPath)
            ELSE IF Present(elemDef.inlineType)
            THEN validateValue(value, elemDef.inlineType, childPath, elemDef.name)
            ELSE IF elemDef.type # ""
            THEN IF elemDef.type \in DOMAIN schema.simpleTypes
                 THEN validateValue(value, schema.simpleTypes[elemDef.type],
                                    childPath, elemDef.name)
                 ELSE IF StartsWithXs(elemDef.type)
                 THEN validateBuiltIn(value, elemDef.type, childPath, elemDef.name)
                 ELSE IF elemDef.type \in DOMAIN schema.complexTypes
                 THEN validateAgainstComplexType(doc, childElement, elemDef.type,
                                                 schema, childPath)
                 ELSE unresolvedReference(childPath, elemDef.name)
            ELSE << >>)

\* validator.js: validateInlineStructure(element, structure, schema, errors, path)
validateInlineStructure(doc, element, structure, schema, path) ==
    << Call("validateInlineStructure", path, "", element, structure.elements) >>
    \o afterMissing(
           missingRequired(doc, element, structure.elements, path),
           Flatten([k \in 1..Len(structure.elements) |->
               LET elemDef == structure.elements[k]
                   childElements == querySelectorAll(doc, element, elemDef.name)
               IN  Flatten([j \in 1..Len(childElements) |->
                       inlineStructureChild(doc, childElements[j], j - 1,
                                            Len(childElements), elemDef, schema,
                                            path)])]))

\* validator.js: the callback of childElements.forEach in validateElementDynamic
rootChild(doc, childElement, index, count, childDef, schema, path) ==
    LET childPath == ChildPath(path, childDef.name, index, count)
        value == trim(textContent(doc, childElement))
    IN  << ChildCall("validateElementDynamic", childPath, childDef, childElement) >>
        \o (IF Present(childDef.structure)
            THEN validateInlineStructure(doc, childElement, childDef.structure,
                                         schema, childPath)
            ELSE IF Present(childDef.inlineType)
            THEN IF value = << >> THEN emptyValue(childDef, childPath)
                 ELSE validateValue(value, childDef.inlineType, childPath, childDef.name)
            ELSE IF childDef.type # ""
            THEN IF value = << >> THEN emptyValue(childDef, childPath)
                 ELSE IF childDef.type \in DOMAIN schema.simpleTypes
                 THEN validateValue(value, schema.simpleTypes[childDef.type],
                                    childPath, childDef.name)
                 ELSE IF StartsWithXs(childDef.type)
                 THEN validateBuiltIn(value, childDef.type, childPath, childDef.name)
                 ELSE IF childDef.type \in DOMAIN schema.complexTypes
                 THEN validateAgainstComplexType(doc, childElement, childDef.type,
                                                 schema, childPath)
                 ELSE unresolvedReference(childPath, childDef.name)
            ELSE << >>)

\* validator.js: findComplexTypeForElement(elementName, schema); "" is null
findComplexTypeForElement(elementName) ==
    CASE elementName = "GROUP" -> "GroupType"
      [] elementName = "POLYGON" -> "PolygonType"
      [] elementName = "SPOT" -> "SpotType"
      [] elementName = "IMAGELAYER" -> "ImageLayerType"
      [] elementName = "POINT" -> "PointType"
      [] elementName = "PICTURE" -> "PictureType"
      [] elementName = "GRID" -> "GridType"
      [] elementName = "DESCPOINT" -> "PointDescType"
      [] elementName = "DESCSPOT" -> "SpotDescType"
      [] OTHER -> ""

\* validator.js: validateElementDynamic(element, elementName, schema, errors, path)
validateElementDynamic(doc, element, elementName, schema, path) ==
    IF Present(schema.rootElement) /\ elementName = schema.rootElement.name
    THEN LET rootStructure == schema.rootElement.structure
         IN  << Call("validateElementDynamic", path, elementName, element,
                     rootStructure.elements) >>
             \o Flatten([k \in 1..Len(rootStructure.elements) |->
                    LET childDef == rootStructure.elements[k]
                        childElements == querySelectorAll(doc, element, childDef.name)
                    IN  (IF childDef.required /\ childElements = << >>
                         THEN << Diag("Campo Requerido Faltante", "elemento", path,
                                      childDef.name, << >>) >>
                         ELSE << >>)
                        \o Flatten([j \in 1..Len(childElements) |->
                               rootChild(doc, childElements[j], j - 1,
                                         Len(childElements), childDef, schema, path)])])
    ELSE LET complexTypeName == findComplexTypeForElement(elementName)
         IN  IF complexTypeName # ""
             THEN validateAgainstComplexType(doc, element, complexTypeName, schema, path)
             ELSE << >>

RECURSIVE collectKnownElements(_)
\* validator.js: collectKnownElements(structure, knownElements): the names added
collectKnownElements(structure) ==
    IF ~Present(structure) THEN {}
    ELSE UNION {{structure.elements[k].name}
                \cup collectKnownElements(structure.elements[k].structure)
                : k \in 1..Len(structure.elements)}

knownElements_rootOnly(schema) ==
    IF Present(schema.rootElement)
    THEN {schema.rootElement.name} \cup collectKnownElements(schema.rootElement.structure)
    ELSE {}

\* validator.js: the set knownElements that validateNoUnknownElements builds
knownElements(schema) ==
    (IF Present(schema.rootElement)
     THEN {schema.rootElement.name} \cup collectKnownElements(schema.rootElement.structure)
     ELSE {})
    \cup UNION {UNION {{schema.complexTypes[typeName].elements[k].name}
                       \cup collectKnownElements(
                              schema.complexTypes[typeName].elements[k].structure)
                       : k \in 1..Len(schema.complexTypes[typeName].elements)}
                : typeName \in DOMAIN schema.complexTypes}

\* validator.js: validateNoUnknownElements(root, schema, errors)
validateNoUnknownElements(doc, root, schema) ==
    LET known == knownElements(schema)
        allElements == querySelectorAllStar(doc, root)
    IN  << Call("validateNoUnknownElements", << >>, "", root, << >>) >>
        \o Flatten([j \in 1..Len(allElements) |->
               IF tagName(doc, allElements[j]) \notin known
               THEN << Diag("Elemento Desconocido", "desconocido",
                            getElementPath(doc, allElements[j]),
                            tagName(doc, allElements[j]), << >>) >>
               ELSE << >>])

----------------------------------------------------------------------------
(* validateStructure and validateXMLAgainstSchema *)

afterRootCheck_continues(rootErrors, rest) == rootErrors \o rest

\* validateStructure: "if (root.nodeName !== expectedRoot) { errors.push(...);
\* return errors; }", then the rest of the function
afterRootCheck(rootErrors, rest) ==
    IF rootErrors # << >> THEN rootErrors ELSE rest

validateStructure_rootFirst(doc) ==
    LET root == documentElement(doc)
        expectedRoot == IF Present(PARSED_SCHEMA) /\ Present(PARSED_SCHEMA.rootElement)
                        THEN PARSED_SCHEMA.rootElement.name ELSE "POLYGONS"
    IN  afterRootCheck(
            IF tagName(doc, root) # expectedRoot
            THEN << Diag("Error de Estructura", "raiz",
                         << Seg(tagName(doc, root), -1) >>, expectedRoot, << >>) >>
            ELSE << >>,
            IF ~Present(PARSED_SCHEMA)
            THEN << Diag("Error del Sistema", "esquema", << >>, "", << >>) >>
            ELSE validateElementDynamic(doc, root, expectedRoot, PARSED_SCHEMA,
                                        << Seg(expectedRoot, -1) >>)
                 \o validateNoUnknownElements(doc, root, PARSED_SCHEMA))

\* validator.js: validateStructure(xmlDoc, xmlString); reads PARSED_SCHEMA
validateStructure(doc) ==
    IF ~Present(PARSED_SCHEMA)
    THEN << Diag("Error del Sistema", "esquema", << >>, "", << >>) >>
    ELSE LET root == documentElement(doc)
             expectedRoot == IF Present(PARSED_SCHEMA.rootElement)
                             THEN PARSED_SCHEMA.rootElement.name ELSE "POLYGONS"
         IN  afterRootCheck(
                 IF tagName(doc, root) # expectedRoot
                 THEN << Diag("Error de Estructura", "raiz",
                              << Seg(tagName(doc, root), -1) >>, expectedRoot, << >>) >>
                 ELSE << >>,
                 validateElementDynamic(doc, root, expectedRoot, PARSED_SCHEMA,
                                        << Seg(expectedRoot, -1) >>)
                 \o validateNoUnknownElements(doc, root, PARSED_SCHEMA))

afterWellFormedness_several(wellFormednessErrors, rest) ==
    IF Len(wellFormednessErrors) > 1 THEN wellFormednessErrors
    ELSE wellFormednessErrors \o rest

afterWellFormedness_appends(wellFormednessErrors, rest) ==
    wellFormednessErrors \o rest

\* validateXMLAgainstSchema: "if (wellFormednessErrors.length > 0) {
\* errors.push(...wellFormednessErrors); return errors; }", then the rest
afterWellFormedness(wellFormednessErrors, rest) ==
    IF Len(wellFormednessErrors) > 0 THEN wellFormednessErrors ELSE rest

\* the place of the first exception in a history, 0 when nothing was thrown
thrownAt(h) ==
    IF \E i \in 1..Len(h) : IsThrow(h[i])
    THEN CHOOSE i \in 1..Len(h) :
            IsThrow(h[i]) /\ \A j \in 1..(i - 1) : ~IsThrow(h[j])
    ELSE 0

catchError_keeps(found, error) ==
    found \o << Diag("Error de Validacion", error.name, << >>, "", << >>) >>

\* validateXMLAgainstSchema: "catch (error) { errors.push({ type: 'Error de
\* Validación', message: error.message, location: null }); }".  `found` are
\* the diagnostics validateStructure had pushed on its own list when the
\* exception left it; errors, the list of validateXMLAgainstSchema, is empty
catchError(found, error) ==
    << Diag("Error de Validacion", error.name, << >>, "", << >>) >>

\* try { ... } catch: the steps up to the first exception, then the handler
tryCatch(h) ==
    LET k == thrownAt(h)
    IN  IF k = 0 THEN h
        ELSE SelectSeq(SubSeq(h, 1, k), LAMBDA e : ~IsDiag(e))
             \o catchError(DiagsOf(SubSeq(h, 1, k - 1)), h[k])

\* validator.js: validateXMLAgainstSchema(xmlString): the history of the call;
\* the list it returns is DiagsOf of it
validateXMLAgainstSchema(xmlString_) ==
    LET wellFormednessErrors == checkXMLWellFormedness(xmlString_)
        xmlDoc == parseFromString(xmlString_)
    IN  tryCatch(
            << Call("checkXMLWellFormedness", << >>, "", 0, << >>) >>
            \o afterWellFormedness(
                   wellFormednessErrors,
                   << Call("parseFromString", << >>, "", 0, << >>) >>
                   \o (IF xmlDoc.error
                       THEN << Diag("Error de Sintaxis XML", "sintaxis", << >>, "", << >>) >>
                       ELSE << Call("validateStructure", << >>, "", 0, << >>) >>
                            \o validateStructure(xmlDoc))))

----------------------------------------------------------------------------
(* The schemas that parseXSDSchema can hand to PARSED_SCHEMA *)

HexDigit == {"F", "0"}

\* <xs:simpleType name="FlagType"> integer 0..1; name="ColorType"> two hex digits
MmpSimpleTypes ==
    [n \in {"FlagType", "ColorType"} |->
        IF n = "FlagType"
        THEN TypeRules("xs:integer",
                       Restrictions(<< >>, parseValue(<< "0" >>, "xs:integer"),
                                    parseValue(<< "1" >>, "xs:integer"), Undefined))
        ELSE TypeRules("xs:string",
                       Restrictions(<< >>, Undefined, Undefined,
                                    RegExp(TRUE, << HexDigit, HexDigit >>, TRUE)))]

\* PolygonType: NAME (required string), WIDTH (optional, inline integer 0..5),
\* LINECOLOR (optional ColorType), POINTS (optional, inline: POINT+ of xs:integer
\* and an optional LABEL of an undeclared type)
\* GridType: SIZE (optional FlagType), STEP (optional xs:decimal)
MmpComplexTypes ==
    [n \in {"PolygonType", "GridType"} |->
        IF n = "PolygonType"
        THEN [elements |-> <<
                ElementDef("NAME", "xs:string", 1, 1, Null, Null),
                ElementDef("WIDTH", "", 0, 1,
                           TypeRules("xs:integer",
                                     Restrictions(<< >>, parseValue(<< "0" >>, "xs:integer"),
                                                  parseValue(<< "5" >>, "xs:integer"),
                                                  Undefined)),
                           Null),
                ElementDef("LINECOLOR", "ColorType", 0, 1, Null, Null),
                ElementDef("POINTS", "", 0, 1, Null,
                           Structure(<< ElementDef("POINT", "xs:integer", 1, 0, Null, Null),
                                        ElementDef("LABEL", "LabelType", 0, 1, Null,
                                                   Null) >>)) >>]
        ELSE [elements |-> <<
                ElementDef("SIZE", "FlagType", 0, 1, Null, Null),
                ElementDef("STEP", "xs:decimal", 0, 1, Null, Null) >>]]

\* <xs:element name="POLYGONS">: GRID (required GridType), POLYGON (0..unbounded
\* PolygonType), TITLE (optional xs:string), GROUPS (optional, inline: GROUP+
\* of PolygonType and an optional COUNT, inline integer)
MmpRootElement ==
    RootElement("POLYGONS", Structure(<<
        ElementDef("GRID", "GridType", 1, 1, Null, Null),
        ElementDef("POLYGON", "PolygonType", 0, 0, Null, Null),
        ElementDef("TITLE", "xs:string", 0, 1, Null, Null),
        ElementDef("GROUPS", "", 0, 1, Null,
                   Structure(<< ElementDef("GROUP", "PolygonType", 1, 0, Null, Null),
                                ElementDef("COUNT", "", 0, 1,
                                           TypeRules("xs:integer", NoRestrictions),
                                           Null) >>)) >>))

MmpSchema == Schema(MmpSimpleTypes, MmpComplexTypes, MmpRootElement)

\* an XSD without a top-level element declaration: rootElement stays null
NoRootSchema == Schema(MmpSimpleTypes, MmpComplexTypes, Null)

\* what loadXSDSchema leaves in PARSED_SCHEMA: a parsed schema, or null when
\* parseXSDSchema throws
LoadableSchemas == {MmpSchema, NoRootSchema, Null}

----------------------------------------------------------------------------
(* Documents *)

MaxChildren == 2

MaxTokens == 3

\* the sequences of at most n members of S
SeqsUpTo(S, n) == UNION {[1..k -> S] : k \in 0..n}

GridFragments ==
    { << SelfClosing("GRID") >>,
      Wrap("GRID", Leaf("SIZE", << "1" >>)),
      Wrap("GRID", Leaf("SIZE", << "7" >>)),
      Wrap("GRID", Leaf("STEP", << "-" >>)) }

PolygonChildren ==
    { Leaf("NAME", << "a" >>), Leaf("NAME", << " " >>),
      Leaf("WIDTH", << "5" >>), Leaf("WIDTH", << "6" >>), Leaf("WIDTH", << "a" >>),
      << SelfClosing("WIDTH") >>,
      Leaf("LINECOLOR", << "F", "0" >>), Leaf("LINECOLOR", << "F", "0", "0" >>),
      Wrap("POINTS", Leaf("POINT", << "1" >>)),
      Wrap("POINTS", Leaf("POINT", << "1" >>) \o Leaf("POINT", << "." >>)),
      Wrap("POINTS", Leaf("LABEL", << "a" >>)),
      << SelfClosing("POINTS") >>,
      << SelfClosing("CIRCLE") >>,
      Wrap("CIRCLE", Leaf("RADIUS", << "1" >>)) }

PolygonBodies == {Flatten(kids) : kids \in SeqsUpTo(PolygonChildren, MaxChildren)}

RootChildren ==
    GridFragments
    \cup { Wrap("POLYGON", Leaf("NAME", << "a" >>)),
           << SelfClosing("POLYGON") >>,
           Leaf("TITLE", << "a" >>),
           << SelfClosing("TITLE") >>,
           << SelfClosing("GROUPS") >>,
           Wrap("GROUPS", Wrap("GROUP", Leaf("NAME", << "a" >>))),
           Wrap("GROUPS", << SelfClosing("GROUP") >> \o Leaf("COUNT", << "a" >>)),
           << SelfClosing("CIRCLE") >>,
           Leaf("NAME", << "a" >>),
           << Comment(<< "\n" >>) >> }

RootBodies == {Flatten(kids) : kids \in SeqsUpTo(RootChildren, MaxChildren)}

\* short texts, balanced or not
TagSoup ==
    SeqsUpTo({Open("POLYGONS"), Close("POLYGONS"), Open("GRID"), Close("GRID"),
              SelfClosing("CIRCLE"), Text(<< "a" >>), Comment(<< "\n" >>)},
             MaxTokens)

\* the texts of the files a user can pick
Docs ==
    {Wrap(r, body) : r \in {"POLYGONS", "POLYGON"}, body \in RootBodies}
    \cup {Wrap("POLYGONS", Wrap("GRID", Leaf("SIZE", << "1" >>)) \o Wrap("POLYGON", body))
          : body \in PolygonBodies}
    \cup {Wrap("POLYGONS", Wrap("GRID", Leaf("SIZE", << "1" >>))
                           \o Wrap("GROUPS", Wrap("GROUP", body)))
          : body \in PolygonBodies}
    \cup TagSoup

----------------------------------------------------------------------------
(* The validator page *)

\* what the preceding validation of the listed file stored, if there was one
NoResult == [t |-> "none", errors |-> << >>]

Result(errors) == [t |-> "result", errors |-> errors]

storeErrors_push(old, new) == old \o new

\* validator.js: files[i].errors = errors
storeErrors(old, new) == new

schemaAfterValidation_caches(schema) ==
    IF Present(schema) THEN [schema EXCEPT !.rootElement = Null] ELSE schema

\* PARSED_SCHEMA once validateXMLAgainstSchema has returned: the routines
\* read the schema and its parts and assign to none of them
schemaAfterValidation(schema) == schema

Init ==
    /\ XSD_SCHEMA = FALSE
    /\ PARSED_SCHEMA = Null
    /\ files = << >>
    /\ log = << >>
    /\ previous = NoResult
    /\ vvValue = << >>
    /\ vvRules = TypeRules("", NoRestrictions)
    /\ vvErrors = << >>
    /\ vvDone = FALSE
    /\ xsdDocument = Null
    /\ calls = << >>

\* loadXSDSchema(): XSD_SCHEMA = the text; PARSED_SCHEMA = parseXSDSchema(text),
\* or left null when that throws.  Called once, when the page loads.
loadXSDSchema ==
    /\ ~XSD_SCHEMA
    /\ \E schema \in LoadableSchemas :
          /\ XSD_SCHEMA' = TRUE
          /\ PARSED_SCHEMA' = schema
    /\ UNCHANGED << xsdDocument, calls, files, log, previous, vvValue, vvRules, vvErrors, vvDone >>

\* addFiles(newFiles) with one file of text d, while no file is listed
addFiles ==
    /\ files = << >>
    /\ \E d \in Docs :
          files' = << [file |-> d, status |-> "pending", errors |-> << >>] >>
    /\ UNCHANGED << xsdDocument, calls, XSD_SCHEMA, PARSED_SCHEMA, log, previous,
                    vvValue, vvRules, vvErrors, vvDone >>

\* validateFile() on the listed file: the text is read and validated, the
\* result stored in the file's entry
validateFile ==
    /\ Len(files) > 0
    /\ XSD_SCHEMA
    /\ LET history == validateXMLAgainstSchema(files[1].file)
           result  == storeErrors(files[1].errors, DiagsOf(history))
       IN  /\ files' = [files EXCEPT ![1].errors = result,
                                     ![1].status = IF Len(result) = 0
                                                   THEN "valid" ELSE "invalid"]
           /\ log' = history
           /\ previous' = IF files[1].status = "pending" THEN NoResult
                          ELSE Result(files[1].errors)
    /\ PARSED_SCHEMA' = schemaAfterValidation(PARSED_SCHEMA)
    /\ UNCHANGED << xsdDocument, calls, XSD_SCHEMA, vvValue, vvRules, vvErrors, vvDone >>

\* removeFile(index): files.splice(index, 1)
removeFile ==
    /\ \E index \in 1..Len(files) :
          files' = Sub(files, 1, index - 1) \o Sub(files, index + 1, Len(files))
    /\ log' = << >>
    /\ previous' = NoResult
    /\ UNCHANGED << xsdDocument, calls, XSD_SCHEMA, PARSED_SCHEMA, vvValue, vvRules, vvErrors, vvDone >>

\* clearAllFiles(): files = []
clearAllFiles ==
    /\ Len(files) > 0
    /\ files' = << >>
    /\ log' = << >>
    /\ previous' = NoResult
    /\ UNCHANGED << xsdDocument, calls, XSD_SCHEMA, PARSED_SCHEMA, vvValue, vvRules, vvErrors, vvDone >>

Next ==
    \/ loadXSDSchema
    \/ addFiles
    \/ validateFile
    \/ removeFile
    \/ clearAllFiles

Spec == Init /\ [][Next]_vars

----------------------------------------------------------------------------
(* Properties of validateXMLAgainstSchema *)

\* the listed file has been validated: files[1].errors is the list returned
\* and log the history of that call
Validated == Len(files) > 0 /\ XSD_SCHEMA /\ files[1].status # "pending"

SchemaLoaded == Present(PARSED_SCHEMA)

\* the names of the routines entered during the last call
Entered == {log[i].msg : i \in {j \in 1..Len(log) : log[j].type = "call"}}

SchemaAwareSteps ==
    {"parseFromString", "validateStructure", "validateElementDynamic",
     "validateAgainstComplexType", "validateInlineStructure", "structure", "child",
     "validateNoUnknownElements"}

\* the text passes the tag-balance check and the parser builds a tree from it
WellFormed(text) ==
    /\ checkXMLWellFormedness(text) = << >>
    /\ ~parseFromString(text).error

RootTagOf(text) == tagName(parseFromString(text), 1)

Mentions(text, name) == \E i \in 1..Len(text) : text[i].n = name

\* C1: when checkXMLWellFormedness returns at least one diagnostic for the
\* document, the result of validateXMLAgainstSchema is exactly that list of
\* well-formedness diagnostics, and neither the parser, the root-name check,
\* the structural descent nor unknown-element detection has been executed.
C1_WellFormednessFirst ==
    (Validated /\ Len(checkXMLWellFormedness(files[1].file)) > 0)
    => /\ files[1].errors = checkXMLWellFormedness(files[1].file)
       /\ \A i \in 1..Len(files[1].errors) :
             files[1].errors[i].type = "Error de Estructura XML"
       /\ Entered \cap SchemaAwareSteps = {}

\* a validated text with an unclosed root tag and an undeclared element in it
C1_Witness ==
    /\ Validated
    /\ PARSED_SCHEMA = MmpSchema
    /\ Len(checkXMLWellFormedness(files[1].file)) > 0
    /\ files[1].file[1] = Open("POLYGONS")
    /\ Mentions(files[1].file, "CIRCLE")
    /\ Len(files[1].errors) > 0

\* C2: for a well-formed document whose root tag differs from the root element
\* name the loaded schema declares, the result is exactly one diagnostic, the
\* root-mismatch one, and no descent or unknown-element detection has run.
C2_RootMismatchOnly ==
    (/\ Validated
     /\ SchemaLoaded
     /\ Present(PARSED_SCHEMA.rootElement)
     /\ WellFormed(files[1].file)
     /\ RootTagOf(files[1].file) # PARSED_SCHEMA.rootElement.name)
    => /\ Len(files[1].errors) = 1
       /\ files[1].errors[1].type = "Error de Estructura"
       /\ files[1].errors[1].msg = "raiz"
       /\ files[1].errors[1].name = PARSED_SCHEMA.rootElement.name
       /\ Entered \cap {"validateElementDynamic", "validateAgainstComplexType",
                        "validateInlineStructure", "structure", "child",
                        "validateNoUnknownElements"} = {}

\* a validated well-formed text with root POLYGON, no GRID and an undeclared
\* element, under the schema whose root is POLYGONS
C2_Witness ==
    /\ Validated
    /\ PARSED_SCHEMA = MmpSchema
    /\ WellFormed(files[1].file)
    /\ RootTagOf(files[1].file) = "POLYGON"
    /\ Mentions(files[1].file, "CIRCLE")
    /\ ~Mentions(files[1].file, "GRID")
    /\ Len(files[1].errors) = 1

----------------------------------------------------------------------------
(* Conformance of a document to a schema, read off the schema alone *)

\* the whole of value matches the expression
MatchesFully(re, value) ==
    /\ Len(value) = Len(re.atoms)
    /\ \A k \in 1..Len(value) : value[k] \in re.atoms[k]

HasDigit(value) == \E i \in 1..Len(value) : value[i] \in Digits

\* value is a non-empty literal of the rule's base type and meets each of its
\* restrictions
SatisfiesRule(value, typeRules) ==
    LET r == typeRules.restrictions
        n == IF IsIntegerType(typeRules.baseType) THEN parseInt(value)
             ELSE parseFloat(value)
        numeric == IsIntegerType(typeRules.baseType) \/ IsFloatType(typeRules.baseType)
    IN  /\ value # << >>
        /\ IsIntegerType(typeRules.baseType) => IsIntLiteral(value)
        /\ IsFloatType(typeRules.baseType) => (IsFloatLiteral(value) /\ HasDigit(value))
        /\ r.enum # << >> => \E i \in 1..Len(r.enum) : r.enum[i] = value
        /\ (numeric /\ r.minInclusive.t # "undefined")
              => (ToNumber(r.minInclusive).t = "num" /\ ~JsLess(n, r.minInclusive))
        /\ (numeric /\ r.maxInclusive.t # "undefined")
              => (ToNumber(r.maxInclusive).t = "num" /\ ~JsLess(r.maxInclusive, n))
        /\ r.pattern.t # "undefined" => MatchesFully(r.pattern, value)

\* the elements whose parent is e, in document order
ChildrenOf(doc, e) ==
    SelectSeq([j \in 1..Len(doc.nodes) |-> j], LAMBDA j : doc.nodes[j].parent = e)

\* the position of name among the declarations, 0 when it is not declared
DeclIndex(defs, name) ==
    IF \E k \in 1..Len(defs) : defs[k].name = name
    THEN CHOOSE k \in 1..Len(defs) : defs[k].name = name
    ELSE 0

RECURSIVE ConformsTo(_, _, _, _)
\* element e has exactly the content `defs` declares: only declared children,
\* in declaration order, each as often as its minOccurs/maxOccurs allow, and
\* each conforming to its own declaration
ConformsTo(doc, e, defs, schema) ==
    LET kids == ChildrenOf(doc, e)
        Occurs(name) == Cardinality({i \in 1..Len(kids) : tagName(doc, kids[i]) = name})
        ConformsChild(c, def) ==
            LET value == trim(textContent(doc, c))
            IN  IF Present(def.structure)
                THEN ConformsTo(doc, c, def.structure.elements, schema)
                ELSE IF Present(def.inlineType) THEN SatisfiesRule(value, def.inlineType)
                ELSE IF def.type \in DOMAIN schema.simpleTypes
                THEN SatisfiesRule(value, schema.simpleTypes[def.type])
                ELSE IF StartsWithXs(def.type)
                THEN SatisfiesRule(value, TypeRules(def.type, NoRestrictions))
                ELSE IF def.type \in DOMAIN schema.complexTypes
                THEN ConformsTo(doc, c, schema.complexTypes[def.type].elements, schema)
                ELSE FALSE
    IN  /\ \A i \in 1..Len(kids) : DeclIndex(defs, tagName(doc, kids[i])) # 0
        /\ \A i \in 1..Len(kids) : \A j \in i..Len(kids) :
              DeclIndex(defs, tagName(doc, kids[i])) <= DeclIndex(defs, tagName(doc, kids[j]))
        /\ \A k \in 1..Len(defs) :
              /\ Occurs(defs[k].name) >= defs[k].minOccurs
              /\ defs[k].maxOccurs # 0 => Occurs(defs[k].name) <= defs[k].maxOccurs
        /\ \A i \in 1..Len(kids) :
              ConformsChild(kids[i], defs[DeclIndex(defs, tagName(doc, kids[i]))])

\* the text is a well-formed document whose root is the schema's root element
\* and whose content is what the schema declares
Conforms(text, schema) ==
    /\ Present(schema.rootElement)
    /\ WellFormed(text)
    /\ RootTagOf(text) = schema.rootElement.name
    /\ ConformsTo(parseFromString(text), 1, schema.rootElement.structure.elements, schema)

\* C3: a document that satisfies every required element, every cardinality and
\* every simple-type rule of the loaded schema gets an empty diagnostic list,
\* also when a required element of complex type is present without text
\* because its declared children are all optional and absent.
C3_ConformantAccepted ==
    (Validated /\ SchemaLoaded /\ Conforms(files[1].file, PARSED_SCHEMA))
    => files[1].errors = << >>

RoutineNames ==
    {"validateElementDynamic", "validateAgainstComplexType", "validateInlineStructure",
     "structure"}

\* the entries of the last call's history where a routine starts to validate
\* an element against a list of declarations
Routines == {i \in 1..Len(log) : log[i].type = "call" /\ log[i].msg \in RoutineNames}

MissingDiags == {m \in 1..Len(log) : log[m].type = "Campo Requerido Faltante"}

\* the direct children of element e of the validated document with that tag
Matches(e, name) ==
    LET doc == parseFromString(files[1].file)
    IN  {j \in 1..Len(doc.nodes) :
            doc.nodes[j].parent = e /\ doc.nodes[j].tagName = name}

\* (routine entry, declaration) pairs: a required child without a match
MissingPairs ==
    {ik \in UNION {{<< i, k >> : k \in 1..Len(log[i].defs)} : i \in Routines} :
        /\ log[ik[1]].defs[ik[2]].minOccurs # 0
        /\ Matches(log[ik[1]].node, log[ik[1]].defs[ik[2]].name) = {}}

\* C5: for every element validated against a list of declarations and every
\* required declared child without a direct-child match, exactly one
\* missing-required diagnostic is emitted for that parent and child; every
\* matching child of every declaration of that parent is still visited, and a
\* visited child of a named complex type with text is descended into.
C5_MissingRequiredEach ==
    Validated =>
       /\ Cardinality(MissingDiags) = Cardinality(MissingPairs)
       /\ \A ik \in MissingPairs :
             LET parent == log[ik[1]].path
                 child  == log[ik[1]].defs[ik[2]].name
             IN  Cardinality({m \in MissingDiags :
                                 log[m].path = parent /\ log[m].name = child})
                 = Cardinality({jk \in MissingPairs :
                                 /\ log[jk[1]].path = parent
                                 /\ log[jk[1]].defs[jk[2]].name = child})
       /\ \A i \in Routines : \A k \in 1..Len(log[i].defs) :
             \A j \in Matches(log[i].node, log[i].defs[k].name) :
                /\ \E m \in (i + 1)..Len(log) :
                      /\ log[m].type = "call" /\ log[m].msg = "child"
                      /\ log[m].node = j
                /\ (/\ log[i].defs[k].type \in DOMAIN PARSED_SCHEMA.complexTypes
                    /\ trim(textContent(parseFromString(files[1].file), j)) # << >>)
                   => \E m \in Routines : log[m].node = j

\* a POLYGON without its required NAME, whose WIDTH and whose POINTS (later in
\* the tree) are reported as well
C5_Witness ==
    /\ Validated
    /\ PARSED_SCHEMA = MmpSchema
    /\ \E m \in MissingDiags : log[m].name = "NAME"
    /\ \E m \in 1..Len(log) : log[m].type = "Valor Fuera de Rango" /\ log[m].name = "WIDTH"
    /\ \E m \in 1..Len(log) : log[m].type = "Tipo de Dato Invalido" /\ log[m].name = "POINT"

RECURSIVE NamesDeclared(_)
\* the names declared by a list of element declarations and, transitively, by
\* their inline structures
NamesDeclared(defs) ==
    UNION {{defs[k].name}
           \cup (IF Present(defs[k].structure)
                 THEN NamesDeclared(defs[k].structure.elements) ELSE {})
           : k \in 1..Len(defs)}

\* the element names reachable in the schema
ReachableNames(schema) ==
    (IF Present(schema.rootElement)
     THEN {schema.rootElement.name} \cup NamesDeclared(schema.rootElement.structure.elements)
     ELSE {})
    \cup UNION {NamesDeclared(schema.complexTypes[n].elements)
                : n \in DOMAIN schema.complexTypes}

RECURSIVE AncestorChain(_, _)
AncestorChain(doc, j) ==
    IF doc.nodes[j].parent = 0 THEN << doc.nodes[j].tagName >>
    ELSE Append(AncestorChain(doc, doc.nodes[j].parent), doc.nodes[j].tagName)

UnknownDiags == {m \in 1..Len(log) : log[m].type = "Elemento Desconocido"}

\* C6: once the descent is over, every element below the root whose tag is not
\* a name reachable in the schema has exactly one unknown-element diagnostic
\* per occurrence, located by the chain of tags from the root to it; elements
\* with a reachable name have none; those diagnostics come last.
C6_UnknownElements ==
    (Validated /\ "validateNoUnknownElements" \in Entered) =>
        LET doc == parseFromString(files[1].file)
            known == ReachableNames(PARSED_SCHEMA)
            below == 2..Len(doc.nodes)
            unknown == {j \in below : doc.nodes[j].tagName \notin known}
            ChainOf(m) == [i \in 1..Len(log[m].path) |-> log[m].path[i].n]
        IN  /\ Cardinality(UnknownDiags) = Cardinality(unknown)
            /\ \A j \in unknown :
                  Cardinality({m \in UnknownDiags :
                                  /\ ChainOf(m) = AncestorChain(doc, j)
                                  /\ log[m].name = doc.nodes[j].tagName})
                  = Cardinality({j2 \in unknown :
                                  AncestorChain(doc, j2) = AncestorChain(doc, j)})
            /\ \A j \in below \ unknown :
                  \A m \in UnknownDiags : log[m].name # doc.nodes[j].tagName
            /\ \A m \in UnknownDiags : \A m2 \in (m + 1)..Len(log) : m2 \in UnknownDiags

\* an undeclared element with an undeclared child, two levels below the root,
\* next to declared elements
C6_Witness ==
    /\ Validated
    /\ PARSED_SCHEMA = MmpSchema
    /\ \E m \in UnknownDiags : Len(log[m].path) = 3 /\ log[m].name = "CIRCLE"
    /\ \E m \in UnknownDiags : Len(log[m].path) = 4 /\ log[m].name = "RADIUS"
    /\ Mentions(files[1].file, "NAME")

FatalKinds == {"Error de Estructura XML", "Error de Sintaxis XML", "Error de Estructura"}

\* C7 as stated: a result that contains a diagnostic of a fatal kind (tag
\* balance, parser error, root mismatch) consists of exactly that one diagnostic.
C7_FatalAlone ==
    (Validated /\ \E i \in 1..Len(files[1].errors) : files[1].errors[i].type \in FatalKinds)
    => Len(files[1].errors) = 1

\* C7, amended: a result that contains a diagnostic of a fatal kind consists of
\* diagnostics of that kind only: one per tag-balance defect found by the
\* well-formedness check, or the single parser-error diagnostic, or the
\* single root-mismatch diagnostic.
C7_FatalKindOnly ==
    Validated =>
       \A i \in 1..Len(files[1].errors) :
          files[1].errors[i].type \in FatalKinds
          => /\ \A j \in 1..Len(files[1].errors) :
                   files[1].errors[j].type = files[1].errors[i].type
             /\ files[1].errors[i].type # "Error de Estructura XML"
                   => Len(files[1].errors) = 1

\* a text with two tags left open: two tag-balance diagnostics in the result
C7_Witness ==
    /\ Validated
    /\ Len(files[1].errors) = 2
    /\ files[1].errors[1].type = "Error de Estructura XML"
    /\ files[1].errors[2].type = "Error de Estructura XML"
    /\ files[1].errors[1].msg = "Etiqueta sin cerrar"

----------------------------------------------------------------------------
(* validateValue on its own *)

MaxValueLen == 3

ValueChars == {"-", ".", "0", "1", "5", "a"}

\* the values handed to validateValue
Values == SeqsUpTo(ValueChars, MaxValueLen)

BaseTypes ==
    {"xs:integer", "xs:float", "xs:double", "xs:decimal", "xs:string",
     "xs:nonNegativeInteger", ""}

\* the value attribute of a minInclusive / maxInclusive facet, or no facet
MinFacets == {Undefined, Str(<< "0" >>), Str(<< "5" >>), Str(<< "1", ".", "5" >>),
              Str(<< "a" >>)}

MaxFacets == {Undefined, Str(<< "0" >>), Str(<< "1" >>), Str(<< "5" >>)}

\* restrictions.minInclusive = parseValue(value attribute, baseType)
Facet(f, baseType) == IF f.t = "undefined" THEN Undefined ELSE parseValue(f.s, baseType)

Digit015 == {"0", "1", "5"}

\* patterns: ^[015]$, [015], ^[015], [015]a, and none
Patterns ==
    {Undefined, RegExp(TRUE, << Digit015 >>, TRUE), RegExp(FALSE, << Digit015 >>, FALSE),
     RegExp(TRUE, << Digit015 >>, FALSE), RegExp(FALSE, << Digit015, {"a"} >>, FALSE)}

\* enumerations: none; 1, a, 55; and A, "1 ", 05 (the case, the blank and the
\* leading zero tell them from the values a, 1 and 5)
Enums == {<< >>, << << "1" >>, << "a" >>, << "5", "5" >> >>,
          << << "A" >>, << "1", " " >>, << "0", "5" >> >>}

\* the rules handed to validateValue: every base type with every pair of
\* bounds, and some base types with enumerations and patterns on top
Rules ==
    {TypeRules(b, Restrictions(<< >>, Facet(lo, b), Facet(hi, b), Undefined))
     : b \in BaseTypes, lo \in MinFacets, hi \in MaxFacets}
    \cup
    {TypeRules(b, Restrictions(en, Undefined, Facet(hi, b), pa))
     : b \in {"xs:integer", "xs:decimal", "xs:string"}, en \in Enums,
       hi \in {Undefined, Str(<< "1" >>)}, pa \in Patterns}

InitValue ==
    /\ XSD_SCHEMA = FALSE
    /\ PARSED_SCHEMA = Null
    /\ files = << >>
    /\ log = << >>
    /\ previous = NoResult
    /\ vvValue \in Values
    /\ vvRules \in Rules
    /\ vvErrors = << >>
    /\ vvDone = FALSE
    /\ xsdDocument = Null
    /\ calls = << >>

\* validateValue(vvValue, vvRules, errors, path, fieldName) on an empty errors
callValidateValue ==
    /\ ~vvDone
    /\ vvErrors' = validateValue(vvValue, vvRules, << Seg("POLYGON", -1) >>, "WIDTH")
    /\ vvDone' = TRUE
    /\ UNCHANGED << xsdDocument, calls, XSD_SCHEMA, PARSED_SCHEMA, files, log, previous, vvValue, vvRules >>

NextValue == callValidateValue

SpecValue == InitValue /\ [][NextValue]_vars

----------------------------------------------------------------------------
(* Properties of validateValue *)

IntegerFamily == {"xs:integer"}

FloatFamily == {"xs:float", "xs:double", "xs:decimal"}

AllDigits(v) == \A i \in 1..Len(v) : v[i] \in {"0", "1", "2", "3", "4", "5", "6", "7", "8", "9"}

Unsigned(v) == IF Len(v) > 0 /\ v[1] = "-" THEN SubSeq(v, 2, Len(v)) ELSE v

\* v matches ^-?\d+$
MatchesInteger(v) == Len(Unsigned(v)) > 0 /\ AllDigits(Unsigned(v))

\* v matches ^-?\d*(\.\d+)?$
MatchesFloat(v) ==
    LET u == Unsigned(v)
    IN  \E k \in 0..Len(u) :
           /\ AllDigits(SubSeq(u, 1, k))
           /\ \/ k = Len(u)
              \/ /\ u[k + 1] = "."
                 /\ k + 2 <= Len(u)
                 /\ AllDigits(SubSeq(u, k + 2, Len(u)))

\* the value fails the coercion check of the rule's base type
FailsCoercion(v, baseType) ==
    \/ baseType \in IntegerFamily /\ ~MatchesInteger(v)
    \/ baseType \in FloatFamily /\ (~MatchesFloat(v) \/ v = << >> \/ v = << "." >>)

TypesOf(errs) == [i \in 1..Len(errs) |-> errs[i].type]

CountOf(errs, type, msg) ==
    Cardinality({i \in 1..Len(errs) : errs[i].type = type /\ errs[i].msg = msg})

\* C8: when the base type is of the integer family and the value does not
\* match ^-?\d+$, or of the floating family and the value does not match
\* ^-?\d*(\.\d+)?$ or is empty or a bare ".", validateValue emits exactly one
\* invalid-type diagnostic and no enumeration, range or pattern diagnostic.
C8_InvalidTypeOnly ==
    (vvDone /\ FailsCoercion(vvValue, vvRules.baseType))
    => TypesOf(vvErrors) = << "Tipo de Dato Invalido" >>

\* "a" under a decimal rule with an enumeration, an upper bound and a pattern,
\* none of which it meets: one diagnostic, the invalid-type one
C8_Witness ==
    /\ vvDone
    /\ vvRules.baseType = "xs:decimal"
    /\ vvValue = << "a" >>
    /\ vvRules.restrictions.enum # << >>
    /\ vvRules.restrictions.maxInclusive.t # "undefined"
    /\ vvRules.restrictions.pattern = RegExp(TRUE, << Digit015 >>, TRUE)
    /\ Len(vvErrors) = 1

\* the number a decimal literal that passed the coercion check stands for, as
\* numerator and denominator; "none" for a lone sign
Coerced(v) ==
    LET u == Unsigned(v)
        sgn == IF Len(v) > 0 /\ v[1] = "-" THEN -1 ELSE 1
        k == IF \E i \in 1..Len(u) : u[i] = "."
             THEN (CHOOSE i \in 1..Len(u) : u[i] = ".") - 1 ELSE Len(u)
        frac == Len(u) - k - (IF k < Len(u) THEN 1 ELSE 0)
        digits == SubSeq(u, 1, k) \o SubSeq(u, k + 2, Len(u))
    IN  IF digits = << >> THEN [t |-> "none", n |-> 0, d |-> 1]
        ELSE [t |-> "num", n |-> sgn * DigitsValue(digits), d |-> Pow10(frac)]

\* the number a bound of the rule stands for: the facet's text read by the
\* loader as an integer, as a float, or compared as a string
BoundOf(x) == ToNumber(x)

StrictlyLess(a, b) == a.t = "num" /\ b.t = "num" /\ a.n * b.d < b.n * a.d

\* C9: for a numeric base type and a value that passed the coercion check, a
\* lower-bound diagnostic is emitted iff minInclusive is present and the
\* coerced value is strictly less than it, an upper-bound diagnostic iff
\* maxInclusive is present and the coerced value is strictly greater than it,
\* each at most once and independently of the other.
C9_RangeIff ==
    (/\ vvDone
     /\ vvRules.baseType \in IntegerFamily \cup FloatFamily
     /\ ~FailsCoercion(vvValue, vvRules.baseType))
    => LET r == vvRules.restrictions
           below == r.minInclusive.t # "undefined"
                    /\ StrictlyLess(Coerced(vvValue), BoundOf(r.minInclusive))
           above == r.maxInclusive.t # "undefined"
                    /\ StrictlyLess(BoundOf(r.maxInclusive), Coerced(vvValue))
       IN  /\ CountOf(vvErrors, "Valor Fuera de Rango", "min") = (IF below THEN 1 ELSE 0)
           /\ CountOf(vvErrors, "Valor Fuera de Rango", "max") = (IF above THEN 1 ELSE 0)

\* minInclusive 5 and maxInclusive 0 on an integer rule: the value 1 gets both
\* range diagnostics
C9_Witness ==
    /\ vvDone
    /\ vvRules.baseType = "xs:integer"
    /\ vvRules.restrictions.minInclusive = Num(5, 1)
    /\ vvRules.restrictions.maxInclusive = Num(0, 1)
    /\ vvValue = << "1" >>
    /\ TypesOf(vvErrors) = << "Valor Fuera de Rango", "Valor Fuera de Rango" >>

\* C10: when restrictions.pattern is present (and the value passed the
\* coercion check, so that the pattern step is reached), the value is accepted
\* only if the whole string matches the expression, with or without ^ and $ in
\* it; otherwise exactly one invalid-format diagnostic is emitted.
C10_PatternFullMatch ==
    (/\ vvDone
     /\ vvRules.restrictions.pattern.t # "undefined"
     /\ ~FailsCoercion(vvValue, vvRules.baseType))
    => CountOf(vvErrors, "Formato Invalido", "pattern")
       = (IF MatchesFully(vvRules.restrictions.pattern, vvValue) THEN 0 ELSE 1)

\* C11: when restrictions.enum is present (and the value passed the coercion
\* check, so that the enumeration step is reached), exactly one invalid-value
\* diagnostic is emitted iff the value is not character for character one of
\* the members, and that diagnostic carries the list of allowed members.
C11_EnumExactMember ==
    (/\ vvDone
     /\ vvRules.restrictions.enum # << >>
     /\ ~FailsCoercion(vvValue, vvRules.baseType))
    => LET enum == vvRules.restrictions.enum
           member == vvValue \in {enum[i] : i \in 1..Len(enum)}
       IN  /\ CountOf(vvErrors, "Valor Invalido", "enum") = (IF member THEN 0 ELSE 1)
           /\ \A i \in 1..Len(vvErrors) :
                 vvErrors[i].type = "Valor Invalido"
                 => vvErrors[i].allowed = enum /\ vvErrors[i].value = vvValue

\* the value "a" against the enumeration A, "1 ", 05 under a string rule: one
\* invalid-value diagnostic listing the three members
C11_Witness ==
    /\ vvDone
    /\ vvRules.baseType = "xs:string"
    /\ vvValue = << "a" >>
    /\ vvRules.restrictions.enum = << << "A" >>, << "1", " " >>, << "0", "5" >> >>
    /\ CountOf(vvErrors, "Valor Invalido", "enum") = 1
    /\ vvErrors[1].allowed = vvRules.restrictions.enum

----------------------------------------------------------------------------
(* validateXMLAgainstSchema under a schema that declares every kind of      *)
(* element at every place: in the root structure, in an inline structure of *)
(* the root, in a named complex type, and in inline structures nested in    *)
(* those                                                                    *)

\* <xs:simpleType name="SmallType">: integer 0..1
DescentSimpleTypes ==
    [n \in {"SmallType"} |->
        TypeRules("xs:integer",
                  Restrictions(<< >>, parseValue(<< "0" >>, "xs:integer"),
                               parseValue(<< "1" >>, "xs:integer"), Undefined))]

\* ID (required xs:integer), REF (optional, of a type declared nowhere), NUM
\* (optional SmallType), TAG (required, inline: the string "a"), ITEM
\* (0..unbounded ItemType)
DescentLeaves ==
    << ElementDef("ID", "xs:integer", 1, 1, Null, Null),
       ElementDef("REF", "MissingType", 0, 1, Null, Null),
       ElementDef("NUM", "SmallType", 0, 1, Null, Null),
       ElementDef("TAG", "", 1, 1,
                  TypeRules("xs:string",
                            Restrictions(<< << "a" >> >>, Undefined, Undefined, Undefined)),
                  Null),
       ElementDef("ITEM", "ItemType", 0, 0, Null, Null) >>

\* INNER (optional): an inline complexType with the same children
InnerDef == ElementDef("INNER", "", 0, 1, Null, Structure(DescentLeaves))

\* ItemType: the leaves, ITEM itself, and INNER
DescentComplexTypes ==
    [n \in {"ItemType"} |-> [elements |-> Append(DescentLeaves, InnerDef)]]

\* <xs:element name="MAP">: the leaves, ITEM, and BOX (optional, inline: the
\* leaves, ITEM and INNER)
DescentRootElement ==
    RootElement("MAP", Structure(Append(DescentLeaves,
        ElementDef("BOX", "", 0, 1, Null,
                   Structure(Append(DescentLeaves, InnerDef))))))

DescentSchema == Schema(DescentSimpleTypes, DescentComplexTypes, DescentRootElement)

DescentFragments ==
    { Leaf("ID", << "1" >>), Leaf("ID", << "a" >>), << SelfClosing("ID") >>,
      Leaf("REF", << "a" >>),
      Leaf("NUM", << "7" >>), Leaf("NUM", << " " >>),
      Leaf("TAG", << "a" >>), Leaf("TAG", << "b" >>), << SelfClosing("TAG") >> }

DescentBodies == {Flatten(kids) : kids \in SeqsUpTo(DescentFragments, MaxChildren)}

\* documents with root MAP: a body at each place of the schema, the same body
\* at two places, and short texts, balanced or not
DescentDocs ==
    {Wrap("MAP", body) : body \in DescentBodies}
    \cup {Wrap("MAP", Wrap("BOX", body)) : body \in DescentBodies}
    \cup {Wrap("MAP", Wrap("ITEM", body)) : body \in DescentBodies}
    \cup {Wrap("MAP", Wrap("BOX", Wrap("INNER", body))) : body \in DescentBodies}
    \cup {Wrap("MAP", Wrap("ITEM", Wrap("INNER", body))) : body \in DescentBodies}
    \cup {Wrap("MAP", body \o Wrap("BOX", body)) : body \in DescentBodies}
    \cup {Wrap("MAP", Wrap("BOX", Wrap("ITEM", body) \o Wrap("ITEM", body)))
          : body \in DescentBodies}
    \cup {Wrap("MAP", Wrap("ITEM", Wrap("ITEM", body))) : body \in DescentBodies}
    \cup TagSoup

\* the page with the schema loaded and one file picked
InitDescent ==
    /\ XSD_SCHEMA = TRUE
    /\ PARSED_SCHEMA = DescentSchema
    /\ \E d \in DescentDocs :
          files = << [file |-> d, status |-> "pending", errors |-> << >>] >>
    /\ log = << >>
    /\ previous = NoResult
    /\ vvValue = << >>
    /\ vvRules = TypeRules("", NoRestrictions)
    /\ vvErrors = << >>
    /\ vvDone = FALSE
    /\ xsdDocument = Null
    /\ calls = << >>

NextDescent == validateFile

SpecDescent == InitDescent /\ [][NextDescent]_vars

----------------------------------------------------------------------------
(* Properties of the structural descent *)

\* the entries of the last call's history where a forEach callback took up a
\* matched element
ChildEntries == {m \in 1..Len(log) : log[m].type = "call" /\ log[m].msg = "child"}

\* the diagnostics of the structural descent and of the value checks
DescentDiags ==
    {d \in 1..Len(log) : log[d].type \notin {"call", "Elemento Desconocido"}}

\* the trimmed text content of node j of the validated document
TrimmedText(j) == trim(textContent(parseFromString(files[1].file), j))

IsPrefix(p, q) == Len(p) <= Len(q) /\ SubSeq(q, 1, Len(p)) = p

\* C12: for every matched element declared with an inline simple type or a
\* type reference whose trimmed text is empty, in whichever routine matched
\* it: a required one gets exactly one diagnostic, the missing-value one; an
\* optional one gets none.
C12_EmptyValueRule ==
    Validated =>
       \A m \in ChildEntries :
          (/\ Present(log[m].defs[1].inlineType) \/ log[m].defs[1].type # ""
           /\ TrimmedText(log[m].node) = << >>)
          => LET own == {d \in DescentDiags : IsPrefix(log[m].path, log[d].path)}
             IN  IF log[m].defs[1].required
                 THEN /\ Cardinality(own) = 1
                      /\ \A d \in own : /\ log[d].type = "Valor Requerido Faltante"
                                        /\ log[d].path = log[m].path
                 ELSE own = {}

\* the declaration's type reference names no simple type, no built-in type and
\* no complex type of the schema
Unresolved(def, schema) ==
    /\ def.type # ""
    /\ ~Present(def.inlineType)
    /\ ~Present(def.structure)
    /\ def.type \notin DOMAIN schema.simpleTypes
    /\ ~StartsWithXs(def.type)
    /\ def.type \notin DOMAIN schema.complexTypes

\* C13: a matched element with text whose type reference resolves to nothing
\* gets no diagnostic, in whichever routine matched it, and every sibling of
\* it that matches a declaration of the same parent is still taken up.
C13_UnresolvedSkipped ==
    Validated =>
       \A m \in ChildEntries :
          (Unresolved(log[m].defs[1], PARSED_SCHEMA) /\ TrimmedText(log[m].node) # << >>)
          => /\ \A d \in DescentDiags : ~IsPrefix(log[m].path, log[d].path)
             /\ \A i \in Routines :
                   log[i].node = parseFromString(files[1].file).nodes[log[m].node].parent
                   => \A k \in 1..Len(log[i].defs) :
                         \A j \in Matches(log[i].node, log[i].defs[k].name) :
                            \E m2 \in ChildEntries : log[m2].node = j

\* an unresolved REF with text in the root structure, in an inline structure,
\* in a named complex type or in a structure nested in one, next to a TAG
\* declared after it whose value is reported
C13_Witness ==
    /\ Validated
    /\ PARSED_SCHEMA = DescentSchema
    /\ \E m \in ChildEntries :
          /\ log[m].name = "REF"
          /\ log[m].by \in {"validateInlineStructure", "structure"}
          /\ TrimmedText(log[m].node) # << >>
          /\ \E d \in DescentDiags :
                /\ d > m
                /\ log[d].type = "Valor Invalido"
                /\ log[d].name = "TAG"
                /\ Len(log[d].path) = Len(log[m].path)

\* the names along a path, without the occurrence indices
PathNames(path) == [i \in 1..Len(path) |-> path[i].n]

\* what a diagnostic says, apart from the occurrence indices in its path
Content(e) == << e.type, PathNames(e.path), e.name, e.value >>

\* the schema with one more named complex type, whose declarations are those
\* of the inline structure
WithNamedType(schema, structure) ==
    [schema EXCEPT !.complexTypes =
        [n \in DOMAIN schema.complexTypes \cup {"(inline)"} |->
            IF n = "(inline)" THEN [elements |-> structure.elements]
            ELSE schema.complexTypes[n]]]

\* the diagnostics for element j with the declarations of `structure`, as
\* validateAgainstComplexType emits them for an element of a named complex type
AsNamedType(j, structure, path) ==
    LET errors == DiagsOf(validateAgainstComplexType(
                              parseFromString(files[1].file), j, "(inline)",
                              WithNamedType(PARSED_SCHEMA, structure), path))
    IN  [i \in 1..Len(errors) |-> Content(errors[i])]

\* the diagnostics of the last call located at or below path, in order
EmittedBelow(path) ==
    LET errors == SelectSeq(log, LAMBDA e : /\ e.type \notin {"call", "Elemento Desconocido"}
                                            /\ IsPrefix(path, e.path))
    IN  [i \in 1..Len(errors) |-> Content(errors[i])]

\* C14: an element with text that is declared with an inline structure inside
\* another inline structure or inside a named complex type gets, for its
\* declared children, the diagnostics that an element of a named complex type
\* with the same declarations gets: the same required-element check and the
\* same dispatch on inline structure, inline simple type and type reference.
C14_NestedStructureSameProcedure ==
    Validated =>
       \A m \in ChildEntries :
          (/\ Present(log[m].defs[1].structure)
           /\ log[m].by # "validateElementDynamic"
           /\ TrimmedText(log[m].node) # << >>)
          => EmittedBelow(log[m].path)
             = AsNamedType(log[m].node, log[m].defs[1].structure, log[m].path)

\* the rank of node j among the children of its parent with its tag
OccurrenceOf(j) ==
    LET doc == parseFromString(files[1].file)
    IN  Cardinality({i \in 1..j : /\ doc.nodes[i].parent = doc.nodes[j].parent
                                  /\ doc.nodes[i].tagName = doc.nodes[j].tagName})

\* the number of children of node j's parent with node j's tag
SiblingsOf(j) ==
    LET doc == parseFromString(files[1].file)
    IN  Cardinality({i \in 1..Len(doc.nodes) :
                        /\ doc.nodes[i].parent = doc.nodes[j].parent
                        /\ doc.nodes[i].tagName = doc.nodes[j].tagName})

\* C15: the path of a matched element, which its diagnostics carry, ends in
\* an occurrence index iff more than one sibling matches the same declared
\* name, and the indices count from the same base (0 or 1) in the root
\* structure, in inline structures and in named complex types.
C15_OneIndexBase ==
    Validated =>
       /\ \A m \in ChildEntries :
             (log[m].path[Len(log[m].path)].i = -1) <=> (SiblingsOf(log[m].node) = 1)
       /\ \E base \in {0, 1} :
             \A m \in ChildEntries :
                SiblingsOf(log[m].node) > 1
                => log[m].path[Len(log[m].path)].i = base + OccurrenceOf(log[m].node) - 1
       /\ \A d \in DescentDiags :
             log[d].type \notin {"Campo Requerido Faltante", "Error de Estructura",
                                 "Error de Estructura XML", "Error de Sintaxis XML"}
             => \E m \in ChildEntries : log[m].path = log[d].path

----------------------------------------------------------------------------
(* checkXMLWellFormedness as a stack machine *)

\* the opening and closing tags of a text, in order: comments are removed
\* before the scan, self-closing tags and character data are passed over
TagTokens(text) == SelectSeq(text, LAMBDA tok : tok.k \in {"open", "close"})

\* the stack once one more tag token has been read
StackStep(stack, tok) ==
    IF tok.k = "open" THEN Append(stack, tok.n)
    ELSE IF stack = << >> THEN << >>
    ELSE SubSeq(stack, 1, Len(stack) - 1)

RECURSIVE StackAfter(_, _)
\* the stack of open names after the first k tag tokens
StackAfter(tags, k) ==
    IF k = 0 THEN << >> ELSE StackStep(StackAfter(tags, k - 1), tags[k])

\* what a tag token read on `stack` adds to the diagnostics: << message,
\* name, expected name >>, or nothing
EmittedOn(stack, tok) ==
    IF tok.k = "open" THEN << >>
    ELSE IF stack = << >>
    THEN << << "Etiqueta de cierre sin apertura", tok.n, "" >> >>
    ELSE IF stack[Len(stack)] # tok.n
    THEN << << "Etiquetas no coinciden", tok.n, stack[Len(stack)] >> >>
    ELSE << >>

EmittedAt(tags, k) == EmittedOn(StackAfter(tags, k - 1), tags[k])

\* one unclosed-tag diagnostic per name of the stack, from the bottom up
LeftOpen(stack) == [j \in 1..Len(stack) |-> << "Etiqueta sin cerrar", stack[j], "" >>]

\* the diagnostics of the stack machine over the whole text: those of the
\* scan, then one per name left on the stack, outermost first
StackMachine(text) ==
    Flatten([k \in 1..Len(TagTokens(text)) |-> EmittedAt(TagTokens(text), k)])
    \o LeftOpen(StackAfter(TagTokens(text), Len(TagTokens(text))))

\* the tag-balance diagnostics of a result, as << message, name, expected >>
TagBalanceOf(errors) ==
    LET wf == SelectSeq(errors, LAMBDA e : e.type = "Error de Estructura XML")
    IN  [i \in 1..Len(wf) |->
            << wf[i].msg, wf[i].name,
               IF wf[i].path = << >> THEN "" ELSE wf[i].path[1].n >>]

\* C20: the diagnostics of checkXMLWellFormedness are those of a stack machine
\* over the opening and closing tags: an opening tag pushes its name; a
\* closing tag on an empty stack gives one closing-without-opener diagnostic
\* and leaves the stack empty; a closing tag on a non-empty stack pops one
\* name and gives one mismatch diagnostic iff the popped name differs; after
\* the scan each name left on the stack gives one unclosed-tag diagnostic,
\* outermost first.
C20_StackMachine ==
    Validated =>
       /\ TagBalanceOf(checkXMLWellFormedness(files[1].file))
          = StackMachine(files[1].file)
       /\ Len(checkXMLWellFormedness(files[1].file))
          = Len(StackMachine(files[1].file))
       /\ TagBalanceOf(files[1].errors) = StackMachine(files[1].file)

\* a text of two opening tags and a closing tag that matches the outer one:
\* a mismatch diagnostic, then an unclosed-tag diagnostic
C20_Witness ==
    /\ Validated
    /\ files[1].file = << Open("POLYGONS"), Open("GRID"), Close("POLYGONS") >>
    /\ TagBalanceOf(files[1].errors)
       = << << "Etiquetas no coinciden", "POLYGONS", "GRID" >>,
            << "Etiqueta sin cerrar", "POLYGONS", "" >> >>

----------------------------------------------------------------------------
(* The XSD loader: parseXSDSchema and the functions it calls *)

\* a node of the parsed XSD document: its local name, the attributes it
\* carries (a record of those present) and its child elements in order
XsdNode(tag, attributes, kids) ==
    [tag |-> tag, attributes |-> attributes, kids |-> kids]

\* node.getAttribute(a) || default
attribute(node, a, default) ==
    IF a \in DOMAIN node.attributes THEN node.attributes[a] ELSE default

RECURSIVE withDescendants(_)
\* the elements `nodes` and the elements below them, in document order
withDescendants(nodes) ==
    IF nodes = << >> THEN << >>
    ELSE << Head(nodes) >> \o withDescendants(Head(nodes).kids)
         \o withDescendants(Tail(nodes))

\* the elements below node, in document order
descendants(node) == withDescendants(node.kids)

\* node.querySelectorAll(tag)
selectAll(node, tag) == SelectSeq(descendants(node), LAMBDA n : n.tag = tag)

\* node.querySelectorAll(`:scope > ${tag}`)
scopeChildren(node, tag) == SelectSeq(node.kids, LAMBDA n : n.tag = tag)

\* ':scope > all > element, :scope > sequence > element, :scope > choice >
\* element', in document order
groupElements(node) ==
    Flatten([k \in 1..Len(node.kids) |->
        IF node.kids[k].tag \in {"all", "sequence", "choice"}
        THEN scopeChildren(node.kids[k], "element") ELSE << >>])

\* the value stored under each key of an object literal filled by
\* obj[key] = value in sequence order: the last assignment to a key wins
lastAssigned(entries, key) ==
    entries[CHOOSE i \in 1..Len(entries) :
               /\ entries[i].name = key
               /\ \A j \in (i + 1)..Len(entries) : entries[j].name # key]

\* the entries of such an object in property order: a key keeps the place of
\* its first assignment
asMapping(entries) ==
    LET first == SelectSeq([i \in 1..Len(entries) |-> i],
                           LAMBDA i : \A j \in 1..(i - 1) :
                                         entries[j].name # entries[i].name)
    IN  [k \in 1..Len(first) |-> lastAssigned(entries, entries[first[k]].name)]

\* the first descendant of that tag carries `value`: querySelector(tag) and
\* getAttribute('value'), read with parseValue; undefined without one
facet(restriction, tag, baseType) ==
    IF selectAll(restriction, tag) = << >> THEN Undefined
    ELSE parseValue(attribute(selectAll(restriction, tag)[1], "value", << >>), baseType)

\* the pattern facet: pattern.getAttribute('value'), kept as it is
patternFacet(restriction) ==
    IF selectAll(restriction, "pattern") = << >> THEN Undefined
    ELSE attribute(selectAll(restriction, "pattern")[1], "value", Undefined)

\* { baseType, restrictions } read off a restriction element.  The three
\* copies of this code differ in one point: parseSimpleTypes and
\* parseElementStructure read the pattern facet, parseComplexTypes does not.
collectRestrictions(restriction, readsPattern) ==
    TypeRules(attribute(restriction, "base", ""),
              Restrictions(
                  [i \in 1..Len(selectAll(restriction, "enumeration")) |->
                      attribute(selectAll(restriction, "enumeration")[i], "value", << >>)],
                  facet(restriction, "minInclusive", attribute(restriction, "base", "")),
                  facet(restriction, "maxInclusive", attribute(restriction, "base", "")),
                  IF readsPattern THEN patternFacet(restriction) ELSE Undefined))

\* "Check for inline simple type definition": null, or the rules of the
\* restriction inside the element's own simpleType child
inlineTypeOf(element, readsPattern) ==
    IF scopeChildren(element, "simpleType") = << >> THEN Null
    ELSE IF selectAll(scopeChildren(element, "simpleType")[1], "restriction") = << >>
    THEN Null
    ELSE collectRestrictions(
             selectAll(scopeChildren(element, "simpleType")[1], "restriction")[1],
             readsPattern)

\* parseInt(minOccurs) / maxOccurs === 'unbounded' ? Infinity : parseInt(maxOccurs),
\* as the number an ElementDef holds (0 for Infinity, -1 for NaN)
occurs(text) ==
    IF text = << "u", "n", "b", "o", "u", "n", "d", "e", "d" >> THEN 0
    ELSE IF parseInt(text).t = "num" THEN parseInt(text).n ELSE -1

RECURSIVE parseElementStructure(_)
RECURSIVE elementDefinition(_, _)

\* the entry stored under an element's name by parseComplexTypes
\* (readsPattern FALSE) and by parseElementStructure (TRUE)
elementDefinition(element, readsPattern) ==
    [ElementDef(attribute(element, "name", ""),
                attribute(element, "type", ""),
                occurs(attribute(element, "minOccurs", << "1" >>)),
                occurs(attribute(element, "maxOccurs", << "1" >>)),
                inlineTypeOf(element, readsPattern),
                IF scopeChildren(element, "complexType") = << >> THEN Null
                ELSE parseElementStructure(element))
     EXCEPT !.required = attribute(element, "minOccurs", << "1" >>) # << "0" >>]

\* xsd-parser.js: parseElementStructure(element)
parseElementStructure(element) ==
    IF scopeChildren(element, "complexType") = << >> THEN Structure(<< >>)
    ELSE Structure(asMapping(
             [k \in 1..Len(groupElements(scopeChildren(element, "complexType")[1])) |->
                 elementDefinition(
                     groupElements(scopeChildren(element, "complexType")[1])[k], TRUE)]))

\* the named elements of the document with that tag, the document element
\* included: xsdDoc.querySelectorAll(`${tag}[name]`)
namedAll(xsdDoc, tag) ==
    SelectSeq(<< xsdDoc.documentElement >> \o descendants(xsdDoc.documentElement),
              LAMBDA n : n.tag = tag /\ "name" \in DOMAIN n.attributes)

\* xsd-parser.js: parseSimpleTypes(xsdDoc, schema): schema.simpleTypes
parseSimpleTypes(xsdDoc) ==
    LET registered == SelectSeq(namedAll(xsdDoc, "simpleType"),
                                LAMBDA n : selectAll(n, "restriction") # << >>)
    IN  [name \in {registered[i].attributes.name : i \in 1..Len(registered)} |->
            collectRestrictions(
                selectAll(lastAssigned([i \in 1..Len(registered) |->
                                           [name |-> registered[i].attributes.name,
                                            node |-> registered[i]]], name).node,
                          "restriction")[1],
                TRUE)]

\* xsd-parser.js: parseComplexTypes(xsdDoc, schema): schema.complexTypes
parseComplexTypes(xsdDoc) ==
    LET named == namedAll(xsdDoc, "complexType")
    IN  [name \in {named[i].attributes.name : i \in 1..Len(named)} |->
            [elements |->
                asMapping([k \in 1..Len(groupElements(
                                lastAssigned([i \in 1..Len(named) |->
                                    [name |-> named[i].attributes.name,
                                     node |-> named[i]]], name).node)) |->
                    elementDefinition(
                        groupElements(
                            lastAssigned([i \in 1..Len(named) |->
                                [name |-> named[i].attributes.name,
                                 node |-> named[i]]], name).node)[k],
                        FALSE)])]]

\* xsd-parser.js: parseRootElement(xsdDoc, schema): schema.rootElement
parseRootElement(xsdDoc) ==
    LET rootElements == SelectSeq(xsdDoc.documentElement.kids,
                                  LAMBDA n : /\ n.tag = "element"
                                             /\ "name" \in DOMAIN n.attributes)
    IN  IF Len(rootElements) > 0
        THEN RootElement(rootElements[1].attributes.name,
                         parseElementStructure(rootElements[1]))
        ELSE Null

\* xsd-parser.js: parseXSDSchema(xsdText), from the document the parser built
\* of the text; what loadXSDSchema then holds in PARSED_SCHEMA (null when
\* parseXSDSchema throws on a parsererror document)
parseXSDSchema(xsdDoc) ==
    IF xsdDoc.t = "parsererror" THEN Null
    ELSE Schema(parseSimpleTypes(xsdDoc), parseComplexTypes(xsdDoc),
                parseRootElement(xsdDoc))

----------------------------------------------------------------------------
(* loadXSDSchema over a family of XSD documents *)

\* an element without attributes
NoAttributes == [x \in {} |-> x]

\* the facets a restriction of the family may carry, in document order
XsdFacets ==
    << XsdNode("enumeration", [value |-> << "a" >>], << >>),
       XsdNode("enumeration", [value |-> << "b" >>], << >>),
       XsdNode("minInclusive", [value |-> << "0" >>], << >>),
       XsdNode("maxInclusive", [value |-> << "5" >>], << >>),
       XsdNode("pattern", [value |-> RegExp(TRUE, << HexDigit >>, TRUE)], << >>) >>

\* <xs:restriction base=...> with any choice of those facets
XsdRestrictions ==
    {XsdNode("restriction", [base |-> base],
             SelectSeq(XsdFacets, LAMBDA f : f \in chosen))
       : base \in {"xs:string", "xs:integer"},
         chosen \in SUBSET {XsdFacets[i] : i \in 1..Len(XsdFacets)}}

\* <xs:restriction base="xs:integer">: 0..5
XsdSmallRestriction ==
    XsdNode("restriction", [base |-> "xs:integer"], << XsdFacets[3], XsdFacets[4] >>)

\* <xs:element name=... type=... minOccurs=...>
XsdTyped(name, type, min, max) ==
    XsdNode("element",
            [name |-> name, type |-> type, minOccurs |-> min, maxOccurs |-> max],
            << >>)

\* the declarations of an element `name`: with a type reference, with its own
\* simpleType (restricted, or a list without restriction), with its own
\* complexType, and with both a simpleType and a complexType child
XsdDeclarations(name, inner) ==
    {XsdTyped(name, "xs:integer", << "0" >>, << "1" >>),
     XsdTyped(name, "ItemType", << "1" >>,
              << "u", "n", "b", "o", "u", "n", "d", "e", "d" >>),
     XsdNode("element", [name |-> name],
             << XsdNode("simpleType", NoAttributes,
                        << XsdNode("list", [itemType |-> "xs:integer"], << >>) >>) >>),
     XsdNode("element", [name |-> name],
             << XsdNode("complexType", NoAttributes,
                        << XsdNode("sequence", NoAttributes, inner) >>) >>)}
    \cup {XsdNode("element", [name |-> name],
                  << XsdNode("simpleType", NoAttributes, << r >>) >>)
            : r \in XsdRestrictions}
    \cup {XsdNode("element", [name |-> name],
                  << XsdNode("simpleType", NoAttributes, << r >>),
                     XsdNode("complexType", NoAttributes,
                             << XsdNode("sequence", NoAttributes, inner) >>) >>)
            : r \in {q \in XsdRestrictions : Len(q.kids) \in {0, 5}}}

\* the element declared at the innermost level of the family
XsdInnermost ==
    XsdNode("element", [name |-> "LEAF", minOccurs |-> << "0" >>],
            << XsdNode("simpleType", NoAttributes,
                       << XsdNode("restriction", [base |-> "xs:string"],
                                  << XsdFacets[1], XsdFacets[5] >>) >>) >>)

XsdGroups == {"sequence", "all", "choice"}

\* <xs:schema>: a named simple type, a named complex type ItemType declaring
\* an element A and an element B whose own complexType declares A again, and
\* a top-level element ROOT declaring A
XsdDocument(group, restriction, decl) ==
    [t |-> "xsd",
     documentElement |->
        XsdNode("schema", NoAttributes,
            << XsdNode("simpleType", [name |-> "SmallType"], << restriction >>),
               XsdNode("complexType", [name |-> "ItemType"],
                   << XsdNode(group, NoAttributes,
                        << decl,
                           XsdNode("element", [name |-> "B"],
                               << XsdNode("complexType", NoAttributes,
                                     << XsdNode(group, NoAttributes,
                                                << decl >>) >>) >>) >>) >>),
               XsdNode("element", [name |-> "ROOT"],
                   << XsdNode("complexType", NoAttributes,
                         << XsdNode(group, NoAttributes, << decl >>) >>) >>) >>)]

\* the declarations behind DescentLeaves
DescentXsdLeaves ==
    << XsdTyped("ID", "xs:integer", << "1" >>, << "1" >>),
       XsdNode("element",
               [name |-> "REF", type |-> "MissingType", minOccurs |-> << "0" >>], << >>),
       XsdNode("element",
               [name |-> "NUM", type |-> "SmallType", minOccurs |-> << "0" >>], << >>),
       XsdNode("element", [name |-> "TAG"],
               << XsdNode("simpleType", NoAttributes,
                          << XsdNode("restriction", [base |-> "xs:string"],
                                     << XsdFacets[1] >>) >>) >>),
       XsdTyped("ITEM", "ItemType", << "0" >>,
                << "u", "n", "b", "o", "u", "n", "d", "e", "d" >>) >>

\* an optional element `name` whose own complexType declares those elements
DescentXsdInline(name, declared) ==
    XsdNode("element", [name |-> name, minOccurs |-> << "0" >>],
            << XsdNode("complexType", NoAttributes,
                       << XsdNode("sequence", NoAttributes, declared) >>) >>)

\* the XSD document of which DescentSchema is the parsed schema
DescentXsd ==
    [t |-> "xsd",
     documentElement |->
        XsdNode("schema", NoAttributes,
            << XsdNode("simpleType", [name |-> "SmallType"],
                   << XsdNode("restriction", [base |-> "xs:integer"],
                         << XsdNode("minInclusive", [value |-> << "0" >>], << >>),
                            XsdNode("maxInclusive", [value |-> << "1" >>], << >>) >>) >>),
               XsdNode("complexType", [name |-> "ItemType"],
                   << XsdNode("sequence", NoAttributes,
                         Append(DescentXsdLeaves,
                                DescentXsdInline("INNER", DescentXsdLeaves))) >>),
               XsdNode("element", [name |-> "MAP"],
                   << XsdNode("complexType", NoAttributes,
                         << XsdNode("sequence", NoAttributes,
                               Append(DescentXsdLeaves,
                                   DescentXsdInline("BOX",
                                       Append(DescentXsdLeaves,
                                           DescentXsdInline("INNER",
                                               DescentXsdLeaves))))) >>) >>) >>)]

\* two named complex types that reference each other: PairType declares P of
\* PeerType, PeerType declares Q of PairType; the root element declares P of
\* PairType
MutualXsd ==
    [t |-> "xsd",
     documentElement |->
        XsdNode("schema", NoAttributes,
            << XsdNode("complexType", [name |-> "PairType"],
                   << XsdNode("sequence", NoAttributes,
                         << XsdTyped("P", "PeerType", << "0" >>, << "1" >>) >>) >>),
               XsdNode("complexType", [name |-> "PeerType"],
                   << XsdNode("sequence", NoAttributes,
                         << XsdTyped("Q", "PairType", << "0" >>, << "1" >>) >>) >>),
               XsdNode("element", [name |-> "ROOT"],
                   << XsdNode("complexType", NoAttributes,
                         << XsdNode("sequence", NoAttributes,
                               << XsdTyped("P", "PairType", << "0" >>,
                                           << "1" >>) >>) >>) >>) >>)]

\* a text the DOM parser rejects
XsdParserError == [t |-> "parsererror"]

XsdInputs ==
    {XsdDocument(group, XsdSmallRestriction, decl)
       : group \in XsdGroups, decl \in XsdDeclarations("A", << XsdInnermost >>)}
    \cup {XsdDocument("sequence", r, XsdTyped("A", "SmallType", << "1" >>, << "1" >>))
            : r \in XsdRestrictions}
    \cup {DescentXsd, MutualXsd, XsdParserError}

\* the page before the schema is fetched, with the XSD document the parser
\* will build of the text served
InitLoader ==
    /\ XSD_SCHEMA = FALSE
    /\ PARSED_SCHEMA = Null
    /\ xsdDocument \in XsdInputs
    /\ files = << >>
    /\ log = << >>
    /\ previous = NoResult
    /\ vvValue = << >>
    /\ vvRules = TypeRules("", NoRestrictions)
    /\ vvErrors = << >>
    /\ vvDone = FALSE
    /\ calls = << >>

\* loadXSDSchema() on that document: XSD_SCHEMA = the text, PARSED_SCHEMA =
\* parseXSDSchema(text), left null when parseXSDSchema throws
loadFetchedSchema ==
    /\ ~XSD_SCHEMA
    /\ XSD_SCHEMA' = TRUE
    /\ PARSED_SCHEMA' = parseXSDSchema(xsdDocument)
    /\ UNCHANGED << xsdDocument, calls, files, log, previous,
                    vvValue, vvRules, vvErrors, vvDone >>

NextLoader == loadFetchedSchema

SpecLoader == InitLoader /\ [][NextLoader]_vars

----------------------------------------------------------------------------
(* The schema the loader builds, against the XSD document it was built of *)

\* the declaration `element` carries its own simpleType with a restriction
HasInlineRestriction(element) ==
    /\ scopeChildren(element, "simpleType") # << >>
    /\ selectAll(scopeChildren(element, "simpleType")[1], "restriction") # << >>

\* the rules parseSimpleTypes registers for that simpleType when it stands at
\* the top level of a schema under a name
AsNamedSimpleType(simpleType) ==
    parseSimpleTypes(
        [t |-> "xsd",
         documentElement |->
            XsdNode("schema", NoAttributes,
                    << XsdNode("simpleType", [name |-> "Named"], simpleType.kids) >>)]
    )["Named"]

RECURSIVE InlineTypesCollected(_, _)
\* every declaration among `declared` that carries its own restricted
\* simpleType has, in the definition stored under its name in `elements`, a
\* non-null inlineType equal to those rules; the same inside the structure of
\* a declaration that carries its own complexType
InlineTypesCollected(declared, elements) ==
    \A k \in 1..Len(declared) :
        LET def == lastAssigned(elements, declared[k].attributes.name)
        IN  /\ HasInlineRestriction(declared[k])
               => /\ Present(def.inlineType)
                  /\ def.inlineType
                        = AsNamedSimpleType(scopeChildren(declared[k], "simpleType")[1])
            /\ scopeChildren(declared[k], "complexType") # << >>
               => /\ Present(def.structure)
                  /\ InlineTypesCollected(
                         groupElements(scopeChildren(declared[k], "complexType")[1]),
                         def.structure.elements)

\* C17: for every element declared in a named complex type that carries its
\* own unnamed simple type with a restriction, the loaded schema holds a
\* non-null inlineType whose baseType and restrictions (enumeration,
\* minInclusive, maxInclusive, pattern) are those a top-level named simple
\* type with the same restriction gets; the same for the elements parsed
\* through parseElementStructure (the root element's and the nested ones)
C17_InlineTypeCollected ==
    (XSD_SCHEMA /\ Present(PARSED_SCHEMA))
    => /\ \A ct \in {namedAll(xsdDocument, "complexType")[i]
                       : i \in 1..Len(namedAll(xsdDocument, "complexType"))} :
             InlineTypesCollected(groupElements(ct),
                                  PARSED_SCHEMA.complexTypes[ct.attributes.name].elements)
       /\ Present(PARSED_SCHEMA.rootElement)
          => InlineTypesCollected(
                 SubSeq(SelectSeq(xsdDocument.documentElement.kids,
                                  LAMBDA n : /\ n.tag = "element"
                                             /\ "name" \in DOMAIN n.attributes), 1, 1),
                 << [name |-> PARSED_SCHEMA.rootElement.name,
                     inlineType |-> Null,
                     structure |-> PARSED_SCHEMA.rootElement.structure] >>)

RECURSIVE ExclusiveForms(_)
\* no definition among `elements`, nor any below them, has both a non-null
\* inlineType and a structure
ExclusiveForms(elements) ==
    \A k \in 1..Len(elements) :
        /\ ~(Present(elements[k].inlineType) /\ Present(elements[k].structure))
        /\ Present(elements[k].structure)
           => ExclusiveForms(elements[k].structure.elements)

\* C19: in every schema the loader produces, no element definition has both
\* a non-null inlineType and an inline structure, whatever the XSD (an
\* element declaration with both a simpleType and a complexType child
\* included)
C19_InlineFormsExclusive ==
    (XSD_SCHEMA /\ Present(PARSED_SCHEMA))
    => /\ \A name \in DOMAIN PARSED_SCHEMA.complexTypes :
             ExclusiveForms(PARSED_SCHEMA.complexTypes[name].elements)
       /\ Present(PARSED_SCHEMA.rootElement)
          => ExclusiveForms(PARSED_SCHEMA.rootElement.structure.elements)

----------------------------------------------------------------------------
(* The activations of loadXSDSchema and validateFile, one call at a time *)

\* the deepest stack of activations the model follows
MaxDepth == 8

\* an activation of function fn: on the document element `element` with
\* typeName or structure (the validating functions), or on the XSD element
\* `node` (the loader).  doc: the document its elements belong to; pending:
\* the calls it has still to make, in order; result: what the outermost
\* function hands to its caller as it returns
Frame(fn, element, typeName, structure, node) ==
    [fn |-> fn, element |-> element, typeName |-> typeName,
     structure |-> structure, node |-> node, doc |-> Null, pending |-> << >>,
     result |-> Null]

descentTarget_sameElement(element, childElement) == element

\* the first argument of the recursive call for a child of a complex type:
\* validateAgainstComplexType(childElement, elemDef.type, ...)
descentTarget(element, childElement) == childElement

\* the end of the chain of tests on elemDef.type: the reference names no
\* simple type and no xs: type and names a complex type, which is entered
typedCallee(element, childElement, elemDef, schema) ==
    IF /\ elemDef.type # ""
       /\ elemDef.type \notin DOMAIN schema.simpleTypes
       /\ ~StartsWithXs(elemDef.type)
       /\ elemDef.type \in DOMAIN schema.complexTypes
    THEN << Frame("validateAgainstComplexType", descentTarget(element, childElement),
                  elemDef.type, Null, Null) >>
    ELSE << >>

\* the two nested forEach loops of the validating functions: for each
\* declared element, for each child of `element` with its name (the elements
\* of querySelectorAll(`:scope > ${name}`)), in document order
eachChild(doc, element, elements, calleeOf(_, _)) ==
    Flatten([k \in 1..Len(elements) |->
        Flatten([j \in 1..Len(doc.nodes) |->
            IF doc.nodes[j].parent = element /\ doc.nodes[j].tagName = elements[k].name
            THEN calleeOf(elements[k], j) ELSE << >>])])

\* childElement.textContent.trim() === '': every character of every text
\* inside the element is white space
emptyText(doc, e) ==
    \A t \in doc.nodes[e].first..doc.nodes[e].last :
        doc.xml[t].k = "text"
        => \A c \in 1..Len(doc.xml[t].v) : doc.xml[t].v[c] \in WhiteSpace

\* the calls an activation of validateXMLAgainstSchema or of a function
\* below it makes
validationCalls(doc, schema, f) ==
    CASE f.fn = "validateXMLAgainstSchema" ->
            IF Len(checkXMLWellFormedness(doc.xml)) > 0 \/ doc.error THEN << >>
            ELSE << Frame("validateStructure", 0, "", Null, Null) >>
      [] f.fn = "validateStructure" ->
            IF ~Present(schema) THEN << >>
            ELSE IF tagName(doc, documentElement(doc))
                    # (IF Present(schema.rootElement)
                       THEN schema.rootElement.name ELSE "POLYGONS")
            THEN << >>
            ELSE << Frame("validateElementDynamic", documentElement(doc),
                          "", Null, Null),
                    Frame("validateNoUnknownElements", documentElement(doc),
                          "", Null, Null) >>
      [] f.fn = "validateElementDynamic" ->
            IF Present(schema.rootElement)
               /\ tagName(doc, f.element) = schema.rootElement.name
            THEN eachChild(doc, f.element, schema.rootElement.structure.elements,
                     LAMBDA childDef, childElement :
                        IF Present(childDef.structure)
                        THEN << Frame("validateInlineStructure", childElement, "",
                                      childDef.structure, Null) >>
                        ELSE IF Present(childDef.inlineType) THEN << >>
                        ELSE IF emptyText(doc, childElement) THEN << >>
                        ELSE typedCallee(f.element, childElement, childDef, schema))
            ELSE IF findComplexTypeForElement(tagName(doc, f.element)) # ""
            THEN << Frame("validateAgainstComplexType", f.element,
                          findComplexTypeForElement(tagName(doc, f.element)),
                          Null, Null) >>
            ELSE << >>
      [] f.fn = "validateInlineStructure" ->
            eachChild(doc, f.element, f.structure.elements,
                LAMBDA elemDef, childElement :
                    IF emptyText(doc, childElement) /\ elemDef.type = ""
                    THEN << >>
                    ELSE IF Present(elemDef.inlineType) THEN << >>
                    ELSE typedCallee(f.element, childElement, elemDef, schema))
      [] f.fn = "validateAgainstComplexType" ->
            IF f.typeName \notin DOMAIN schema.complexTypes THEN << >>
            ELSE eachChild(doc, f.element, schema.complexTypes[f.typeName].elements,
                     LAMBDA elemDef, childElement :
                        IF emptyText(doc, childElement) THEN << >>
                        ELSE IF Present(elemDef.inlineType) THEN << >>
                        ELSE IF Present(elemDef.structure)
                        THEN eachChild(doc, childElement, elemDef.structure.elements,
                                 LAMBDA subElemDef, subChildElement :
                                    IF emptyText(doc, subChildElement)
                                    THEN << >>
                                    ELSE typedCallee(childElement, subChildElement,
                                                     subElemDef, schema))
                        ELSE typedCallee(f.element, childElement, elemDef, schema))
      [] OTHER -> << >>

\* the declared elements with their own complexType: the ones
\* parseElementStructure is called on
nestedStructures(declared) ==
    [k \in 1..Len(SelectSeq(declared,
                            LAMBDA e : scopeChildren(e, "complexType") # << >>)) |->
        Frame("parseElementStructure", 0, "", Null,
              SelectSeq(declared,
                        LAMBDA e : scopeChildren(e, "complexType") # << >>)[k])]

\* the calls an activation of parseXSDSchema or of a function below it makes
loaderCalls(doc, f) ==
    CASE f.fn = "parseXSDSchema" ->
            IF doc.t = "parsererror" THEN << >>
            ELSE << Frame("parseSimpleTypes", 0, "", Null, Null),
                    Frame("parseComplexTypes", 0, "", Null, Null),
                    Frame("parseRootElement", 0, "", Null, Null) >>
      [] f.fn = "parseComplexTypes" ->
            Flatten([i \in 1..Len(namedAll(doc, "complexType")) |->
                nestedStructures(groupElements(namedAll(doc, "complexType")[i]))])
      [] f.fn = "parseRootElement" ->
            SubSeq([k \in 1..Len(SelectSeq(doc.documentElement.kids,
                                   LAMBDA n : /\ n.tag = "element"
                                              /\ "name" \in DOMAIN n.attributes)) |->
                       Frame("parseElementStructure", 0, "", Null,
                             SelectSeq(doc.documentElement.kids,
                                       LAMBDA n : /\ n.tag = "element"
                                                  /\ "name" \in DOMAIN n.attributes)[k])],
                   1, 1)
      [] f.fn = "parseElementStructure" ->
            IF scopeChildren(f.node, "complexType") = << >> THEN << >>
            ELSE nestedStructures(groupElements(scopeChildren(f.node, "complexType")[1]))
      [] OTHER -> << >>

\* the activation of f as it starts, on document doc: with every call it
\* will make
Activation(f, doc) ==
    [f EXCEPT !.doc = doc,
              !.pending =
                  IF f.fn \in {"parseXSDSchema", "parseSimpleTypes", "parseComplexTypes",
                               "parseRootElement", "parseElementStructure"}
                  THEN loaderCalls(doc, f)
                  ELSE validationCalls(doc, PARSED_SCHEMA, f)]

\* the page as it opens, with the XSD document the parser will build of the
\* text served and a file that the user will pick; or the page with the
\* schema of the descent loaded and one of its documents picked
InitCalls ==
    /\ \/ /\ XSD_SCHEMA = FALSE
          /\ PARSED_SCHEMA = Null
          /\ xsdDocument \in XsdInputs
          /\ files = << [file |-> IF xsdDocument = MutualXsd
                                  THEN Wrap("ROOT", Wrap("P", Wrap("P", Wrap("Q",
                                           Leaf("P", << "a" >>)))))
                                  ELSE Wrap("ROOT", Wrap("A", Leaf("LEAF", << "a" >>))),
                         status |-> "pending", errors |-> << >>] >>
       \/ /\ XSD_SCHEMA = TRUE
          /\ PARSED_SCHEMA = parseXSDSchema(DescentXsd)
          /\ xsdDocument = DescentXsd
          /\ \E d \in DescentDocs :
                files = << [file |-> d, status |-> "pending", errors |-> << >>] >>
    /\ log = << >>
    /\ previous = NoResult
    /\ vvValue = << >>
    /\ vvRules = TypeRules("", NoRestrictions)
    /\ vvErrors = << >>
    /\ vvDone = FALSE
    /\ calls = << >>

\* loadXSDSchema() is entered (on page load) and calls parseXSDSchema on the
\* text fetched
enterLoadXSDSchema ==
    /\ ~XSD_SCHEMA
    /\ Len(calls) = 0
    /\ calls' = << [Activation(Frame("parseXSDSchema", 0, "", Null, Null), xsdDocument)
                    EXCEPT !.result = parseXSDSchema(xsdDocument)] >>
    /\ UNCHANGED << XSD_SCHEMA, PARSED_SCHEMA, xsdDocument, files, log, previous,
                    vvValue, vvRules, vvErrors, vvDone >>

\* validateFile() is entered with the schema loaded: files[i].status =
\* 'validating', and validateXMLAgainstSchema is called on the file's text
enterValidateFile ==
    /\ XSD_SCHEMA
    /\ Len(calls) = 0
    /\ Len(files) > 0
    /\ files[1].status = "pending"
    /\ files' = [files EXCEPT ![1].status = "validating"]
    /\ calls' = << [Activation(Frame("validateXMLAgainstSchema", 0, "", Null, Null),
                               parseFromString(files[1].file))
                    EXCEPT !.result = validateXMLAgainstSchema(files[1].file)] >>
    /\ UNCHANGED << XSD_SCHEMA, PARSED_SCHEMA, xsdDocument, log, previous,
                    vvValue, vvRules, vvErrors, vvDone >>

\* the innermost activation makes its next call
call ==
    /\ Len(calls) > 0
    /\ Len(calls) < MaxDepth
    /\ Len(calls[1].pending) > 0
    /\ calls' = << Activation(Head(calls[1].pending), calls[1].doc),
                   [calls[1] EXCEPT !.pending = Tail(@)] >> \o Tail(calls)
    /\ UNCHANGED << XSD_SCHEMA, PARSED_SCHEMA, xsdDocument, files, log, previous,
                    vvValue, vvRules, vvErrors, vvDone >>

\* the innermost activation has no call left and returns.  As parseXSDSchema
\* returns, loadXSDSchema stores the schema; as validateXMLAgainstSchema
\* returns, validateFile stores the errors and the status
return ==
    /\ Len(calls) > 0
    /\ Len(calls[1].pending) = 0
    /\ calls' = Tail(calls)
    /\ IF calls[1].fn = "parseXSDSchema"
       THEN /\ XSD_SCHEMA' = TRUE
            /\ PARSED_SCHEMA' = calls[1].result
            /\ UNCHANGED << files, log, previous >>
       ELSE IF calls[1].fn = "validateXMLAgainstSchema"
       THEN /\ files' = [files EXCEPT
                  ![1].errors = storeErrors(files[1].errors, DiagsOf(calls[1].result)),
                  ![1].status = IF Len(DiagsOf(calls[1].result)) = 0
                                THEN "valid" ELSE "invalid"]
            /\ log' = calls[1].result
            /\ UNCHANGED << XSD_SCHEMA, PARSED_SCHEMA, previous >>
       ELSE UNCHANGED << XSD_SCHEMA, PARSED_SCHEMA, files, log, previous >>
    /\ UNCHANGED << xsdDocument, vvValue, vvRules, vvErrors, vvDone >>

NextCalls ==
    \/ enterLoadXSDSchema
    \/ enterValidateFile
    \/ call
    \/ return

\* a function that was entered runs on: its next call is made, and it
\* returns when it has none left
SpecCalls ==
    InitCalls /\ [][NextCalls]_vars /\ WF_vars(call) /\ WF_vars(return)

\* C18: validate terminates on every finite document under every loaded
\* schema, schemas whose complex types reference themselves included, and
\* the loader's parsing of nested inline complex types terminates on every
\* XSD tree: whenever activations are under way, the stack of activations
\* eventually unwinds to empty
C18_Terminates == (Len(calls) > 0) ~> (Len(calls) = 0)

\* a document with an ITEM inside an ITEM, both of the self-referential
\* ItemType, has been validated to the end under the loaded schema
C18_Witness ==
    /\ Len(calls) = 0
    /\ XSD_SCHEMA
    /\ PARSED_SCHEMA = DescentSchema
    /\ files[1].status \in {"valid", "invalid"}
    /\ \E i \in 1..Len(log) :
          /\ log[i].type = "call"
          /\ log[i].msg = "validateAgainstComplexType"
          /\ log[i].name = "ItemType"
          /\ Len(log[i].path) = 3

----------------------------------------------------------------------------
(* Line numbers of the tag-balance diagnostics *)

\* the diagnostics the scan gives when each tag keeps the offset it has in the
\* text as it was read, comments included
wfOriginalOffsets(xml) == wfScan(xml, xml, 1, << >>, << >>)

\* the diagnostics that carry a line: mismatched and unclosed tags
LineBearing(errors) ==
    SelectSeq(errors, LAMBDA e : /\ e.type = "Error de Estructura XML"
                                 /\ e.msg \in {"Etiquetas no coinciden",
                                               "Etiqueta sin cerrar"})

\* a comment stands before some tag of the text
HasCommentBeforeTag(xml) ==
    \E i \in 1..Len(xml), j \in 1..Len(xml) :
        i < j /\ xml[i].k = "comment" /\ IsTag(xml[j])

\* C21: the line reported for a mismatched or an unclosed tag is 1 plus the
\* number of newlines that precede the tag's offset in the original text, also
\* when a comment containing newlines stands before the tag
C21_LineOfOriginalOffset ==
    Validated =>
        \A i \in 1..Len(LineBearing(files[1].errors)) :
            LineBearing(files[1].errors)[i].at
            = LineBearing(wfOriginalOffsets(files[1].file))[i].at

\* the same, for the texts in which no comment stands before a tag
C21_LineWithoutComments ==
    (Validated /\ ~HasCommentBeforeTag(files[1].file)) =>
        \A i \in 1..Len(LineBearing(files[1].errors)) :
            LineBearing(files[1].errors)[i].at
            = LineBearing(wfOriginalOffsets(files[1].file))[i].at

\* a tag left open after a comment of one newline is reported on line 1
C21_Witness ==
    /\ Validated
    /\ files[1].file = << Comment(<< "\n" >>), Open("GRID") >>
    /\ Len(files[1].errors) = 1
    /\ files[1].errors[1].msg = "Etiqueta sin cerrar"
    /\ files[1].errors[1].at = 1
    /\ wfOriginalOffsets(files[1].file)[1].at = 2

----------------------------------------------------------------------------
(* Order of the diagnostics about the children of one parent *)

\* the entries of the last call's history where a routine took up the
\* declarations `defs` for the children of one parent element
ParentEntries ==
    {p \in 1..Len(log) : log[p].type = "call" /\ log[p].msg # "child"
                         /\ log[p].defs # << >>}

\* the place, among the declarations of parent entry p, of the child that
\* diagnostic d is about: the missing child of the parent, or the child the
\* path of d passes through; 0 when d is not about a child of that parent
AboutChild(p, d) ==
    IF log[d].type = "Campo Requerido Faltante" /\ log[d].path = log[p].path
    THEN DeclIndex(log[p].defs, log[d].name)
    ELSE IF IsPrefix(log[p].path, log[d].path) /\ Len(log[d].path) > Len(log[p].path)
    THEN DeclIndex(log[p].defs, log[d].path[Len(log[p].path) + 1].n)
    ELSE 0

\* the diagnostics about the children of parent entry p follow the
\* declaration order
InDeclarationOrder(p) ==
    \A d1, d2 \in DescentDiags :
        (p < d1 /\ d1 < d2 /\ AboutChild(p, d1) > 0 /\ AboutChild(p, d2) > 0)
        => AboutChild(p, d1) <= AboutChild(p, d2)

\* C22: within the diagnostics about the children of one parent element, no
\* diagnostic about a later-declared child, a missing-required one included,
\* precedes a diagnostic about an earlier-declared child, in every routine
C22_DeclarationOrder ==
    Validated => \A p \in ParentEntries : InDeclarationOrder(p)

\* the same, for the children of the root element in validateElementDynamic
C22_RootDeclarationOrder ==
    Validated =>
        \A p \in ParentEntries :
            log[p].msg = "validateElementDynamic" => InDeclarationOrder(p)

\* <MAP><BOX><ID>a</ID></BOX></MAP>: the missing TAG (declared fourth) is
\* reported before the value of ID (declared first)
C22_Witness ==
    /\ Validated
    /\ files[1].file = Wrap("MAP", Wrap("BOX", Leaf("ID", << "a" >>)))
    /\ \E p \in ParentEntries, d1, d2 \in DescentDiags :
          /\ log[p].msg = "validateInlineStructure"
          /\ p < d1 /\ d1 < d2
          /\ log[d1].type = "Campo Requerido Faltante" /\ log[d1].name = "TAG"
          /\ log[d2].name = "ID" /\ log[d2].type # "Campo Requerido Faltante"
          /\ AboutChild(p, d1) = 4 /\ AboutChild(p, d2) = 1

----------------------------------------------------------------------------
(* The values handed to validateValue *)

\* the diagnostics that validateValue pushes; each carries the value it was
\* called with
ValueDiags ==
    {d \in 1..Len(log) : log[d].type \in {"Tipo de Dato Invalido", "Valor Invalido",
                                          "Valor Fuera de Rango", "Formato Invalido"}}

\* the forEach callback that handed the value of diagnostic d to validateValue
CallerOf(d) ==
    CHOOSE m \in ChildEntries :
        /\ m < d
        /\ log[m].path = log[d].path
        /\ \A m2 \in ChildEntries : (m2 < d /\ log[m2].path = log[d].path) => m2 <= m

\* C23: validateValue is never invoked with an empty value: on every call path
\* from validateElementDynamic, validateInlineStructure and
\* validateAgainstComplexType the value passed is the element's trimmed text
\* and is not empty
C23_NeverEmptyValue ==
    Validated =>
        \A d \in ValueDiags :
            /\ log[d].value # << >>
            /\ log[d].value = TrimmedText(log[CallerOf(d)].node)

\* the same, for the callbacks of every routine but validateInlineStructure
C23_NeverEmptyElsewhere ==
    Validated =>
        \A d \in ValueDiags :
            log[CallerOf(d)].by # "validateInlineStructure"
            => /\ log[d].value # << >>
               /\ log[d].value = TrimmedText(log[CallerOf(d)].node)

\* the value passed is the trimmed text, in every routine
C23_TrimmedTextPassed ==
    Validated =>
        \A d \in ValueDiags : log[d].value = TrimmedText(log[CallerOf(d)].node)

\* <MAP><BOX><ID/></BOX></MAP>: validateInlineStructure hands the empty text
\* of ID to validateValue, which reports it as not an integer
C23_Witness ==
    /\ Validated
    /\ files[1].file = Wrap("MAP", Wrap("BOX", << SelfClosing("ID") >>))
    /\ \E d \in ValueDiags :
          /\ log[d].type = "Tipo de Dato Invalido"
          /\ log[d].name = "ID"
          /\ log[d].value = << >>
          /\ log[CallerOf(d)].by = "validateInlineStructure"

----------------------------------------------------------------------------
(* Validation when the schema could not be parsed *)

\* C24: when parsing the XSD failed, PARSED_SCHEMA stays null, and every later
\* validation of a well-formed document returns exactly one system-error
\* diagnostic and performs no root check, no descent and no unknown-element
\* detection
C24_SystemErrorOnly ==
    (Validated /\ ~Present(PARSED_SCHEMA) /\ WellFormed(files[1].file))
    => /\ Len(files[1].errors) = 1
       /\ files[1].errors[1].type = "Error del Sistema"
       /\ files[1].status = "invalid"
       /\ Entered = {"checkXMLWellFormedness", "parseFromString", "validateStructure"}
       /\ \A d \in 1..Len(log) :
             log[d].type \notin {"Error de Estructura", "Elemento Desconocido"}

\* the schema installed by loadXSDSchema is null exactly when the XSD text
\* does not parse
C24_NullWhenParsingFails ==
    XSD_SCHEMA => (Present(PARSED_SCHEMA) <=> xsdDocument # XsdParserError)

\* a document whose root is not the expected one and holds an undeclared
\* element, validated while PARSED_SCHEMA is null: one system error
C24_Witness ==
    /\ Validated
    /\ PARSED_SCHEMA = Null
    /\ files[1].file = Wrap("POLYGON", << SelfClosing("CIRCLE") >>)
    /\ WellFormed(files[1].file)
    /\ Len(files[1].errors) = 1
    /\ files[1].errors[1].type = "Error del Sistema"

----------------------------------------------------------------------------
(* Proper nesting *)

\* the least place where an opening tag is directly followed by the closing
\* tag of the same name, 0 when there is none
AdjacentPair(tags) ==
    IF \E i \in 1..(Len(tags) - 1) :
          tags[i].k = "open" /\ tags[i + 1].k = "close" /\ tags[i].n = tags[i + 1].n
    THEN CHOOSE i \in 1..(Len(tags) - 1) :
            /\ tags[i].k = "open" /\ tags[i + 1].k = "close" /\ tags[i].n = tags[i + 1].n
            /\ \A j \in 1..(i - 1) :
                  ~(tags[j].k = "open" /\ tags[j + 1].k = "close"
                    /\ tags[j].n = tags[j + 1].n)
    ELSE 0

RECURSIVE ProperlyNested(_)
\* a sequence of tag tokens is properly nested when it is empty, or when
\* taking out an opening tag and the closing tag of the same name next to it
\* leaves a properly nested sequence
ProperlyNested(tags) ==
    IF tags = << >> THEN TRUE
    ELSE LET i == AdjacentPair(tags)
         IN  IF i = 0 THEN FALSE
             ELSE ProperlyNested(SubSeq(tags, 1, i - 1) \o SubSeq(tags, i + 2, Len(tags)))

\* C25: checkXMLWellFormedness returns the empty list if and only if the
\* opening and closing tag tokens of the text, comments and self-closing
\* tokens left out, are properly nested
C25_EmptyIffNested ==
    Validated =>
        LET nested == ProperlyNested(TagTokens(files[1].file))
        IN  /\ (checkXMLWellFormedness(files[1].file) = << >>) <=> nested
            /\ ~nested
               => /\ files[1].errors # << >>
                  /\ \A i \in 1..Len(files[1].errors) :
                        files[1].errors[i].type = "Error de Estructura XML"

\* a balanced text with a comment between its tags
C25_Witness ==
    /\ Validated
    /\ files[1].file = Wrap("GRID", << Comment(<< "\n" >>) >>)
    /\ ProperlyNested(TagTokens(files[1].file))
    /\ checkXMLWellFormedness(files[1].file) = << >>

----------------------------------------------------------------------------
(* validateXMLAgainstSchema under a schema with a pattern that is no regular *)
(* expression                                                                *)

\* the simple types of the page's schema, with ColorType's pattern replaced
\* by a source that new RegExp rejects
ThrowingSimpleTypes ==
    [MmpSimpleTypes EXCEPT !["ColorType"] =
        TypeRules("xs:string",
                  Restrictions(<< >>, Undefined, Undefined, InvalidRegExp))]

ThrowingSchema == Schema(ThrowingSimpleTypes, MmpComplexTypes, MmpRootElement)

\* the page with that schema loaded and one file picked
InitThrow ==
    /\ XSD_SCHEMA = TRUE
    /\ PARSED_SCHEMA = ThrowingSchema
    /\ \E d \in Docs :
          files = << [file |-> d, status |-> "pending", errors |-> << >>] >>
    /\ log = << >>
    /\ previous = NoResult
    /\ vvValue = << >>
    /\ vvRules = TypeRules("", NoRestrictions)
    /\ vvErrors = << >>
    /\ vvDone = FALSE
    /\ xsdDocument = Null
    /\ calls = << >>

NextThrow == validateFile

SpecThrow == InitThrow /\ [][NextThrow]_vars

\* the steps of validateStructure on the listed file, had no handler cut them
UncaughtSteps == validateStructure(parseFromString(files[1].file))

\* the diagnostics validateStructure had found when the exception was thrown
FoundBeforeThrow == DiagsOf(SubSeq(UncaughtSteps, 1, thrownAt(UncaughtSteps) - 1))

\* an exception was raised during the last validation
Raised == Validated /\ \E i \in 1..Len(log) : IsThrow(log[i])

\* C26: validateXMLAgainstSchema never throws: when a step raises an exception
\* (an invalid regular expression in a schema pattern), the list returned
\* holds exactly one generic validation-error diagnostic carrying the
\* exception's message, and none of the structural diagnostics found before
\* the exception; without an exception no such diagnostic is returned
C26_ExceptionCaught ==
    /\ Raised
       => /\ Len(files[1].errors) = 1
          /\ files[1].errors[1].type = "Error de Validacion"
          /\ files[1].errors[1].msg = "Invalid regular expression"
          /\ files[1].status = "invalid"
          /\ \A i \in 1..Len(FoundBeforeThrow) :
                \A j \in 1..Len(files[1].errors) :
                    files[1].errors[j] # FoundBeforeThrow[i]
    /\ (Validated /\ ~Raised)
       => \A j \in 1..Len(files[1].errors) :
             files[1].errors[j].type # "Error de Validacion"

\* a POLYGON without its required NAME and with a LINECOLOR of the type whose
\* pattern does not compile: the missing NAME was found, then the exception
\* was raised, and the list returned holds the validation error only
C26_Witness ==
    /\ Raised
    /\ files[1].file = Wrap("POLYGONS", Wrap("GRID", Leaf("SIZE", << "1" >>))
                                        \o Wrap("POLYGON", Leaf("LINECOLOR", << "F", "0" >>)))
    /\ Len(FoundBeforeThrow) = 1
    /\ FoundBeforeThrow[1].type = "Campo Requerido Faltante"
    /\ FoundBeforeThrow[1].name = "NAME"
    /\ Len(files[1].errors) = 1
    /\ files[1].errors[1].type = "Error de Validacion"

----------------------------------------------------------------------------
(* validateFile with each schema the loader can leave, on each document *)

\* the page once loadXSDSchema has run, with one file picked
InitStructure ==
    /\ XSD_SCHEMA = TRUE
    /\ PARSED_SCHEMA \in LoadableSchemas
    /\ \E d \in Docs :
          files = << [file |-> d, status |-> "pending", errors |-> << >>] >>
    /\ log = << >>
    /\ previous = NoResult
    /\ vvValue = << >>
    /\ vvRules = TypeRules("", NoRestrictions)
    /\ vvErrors = << >>
    /\ vvDone = FALSE
    /\ xsdDocument = Null
    /\ calls = << >>

NextStructure == validateFile

SpecStructure == InitStructure /\ [][NextStructure]_vars

----------------------------------------------------------------------------
(* Unknown-element detection and misplaced elements *)

RECURSIVE DeclaredIn(_)
\* the names declared by a list of declarations, at any depth of their
\* inline structures
DeclaredIn(defs) ==
    {defs[k].name : k \in 1..Len(defs)}
    \cup UNION {IF Present(defs[k].structure)
                THEN DeclaredIn(defs[k].structure.elements) ELSE {}
                : k \in 1..Len(defs)}

\* the tags declared anywhere in the schema: under the root element, under a
\* named complex type, or in an inline structure of either
DeclaredTags(schema) ==
    (IF Present(schema.rootElement)
     THEN DeclaredIn(schema.rootElement.structure.elements) ELSE {})
    \cup UNION {DeclaredIn(schema.complexTypes[t].elements)
                : t \in DOMAIN schema.complexTypes}

\* element j of the validated document carries a declared tag, and no routine
\* took up its parent with a declaration of that tag
MisplacedIn(doc, declared, parents, j) ==
    /\ doc.nodes[j].parent # 0
    /\ doc.nodes[j].tagName \in declared
    /\ ~\E p \in parents :
          /\ log[p].node = doc.nodes[j].parent
          /\ DeclIndex(log[p].defs, doc.nodes[j].tagName) > 0

Misplaced(j) ==
    MisplacedIn(parseFromString(files[1].file), DeclaredTags(PARSED_SCHEMA),
                ParentEntries, j)

\* C27: an element whose tag is declared anywhere in the schema never gets an
\* unknown-element diagnostic, whatever its parent; placed under a parent
\* that does not declare it, it gets no diagnostic of any kind: no routine of
\* the descent takes it up, and the unknown-element pass reports nothing at
\* its place
C27_DeclaredNeverUnknown ==
    (Validated /\ Present(PARSED_SCHEMA))
    => LET doc == parseFromString(files[1].file)
           declared == DeclaredTags(PARSED_SCHEMA)
           parents == ParentEntries
       IN  /\ \A d \in 1..Len(log) :
                 log[d].type = "Elemento Desconocido" => log[d].name \notin declared
           /\ WellFormed(files[1].file)
              => \A j \in 1..Len(doc.nodes) :
                    MisplacedIn(doc, declared, parents, j)
                    => /\ \A m \in 1..Len(log) :
                             log[m].type = "call" => log[m].node # j
                       /\ \A d \in 1..Len(log) :
                             log[d].type = "Elemento Desconocido"
                             => log[d].path # getElementPath(doc, j)

\* <POLYGONS><GRID><SIZE>1</SIZE></GRID><NAME>a</NAME></POLYGONS>: NAME is
\* declared in PolygonType only; under the root it is not reported at all
C27_Witness ==
    /\ Validated
    /\ PARSED_SCHEMA = MmpSchema
    /\ files[1].file = Wrap("POLYGONS", Wrap("GRID", Leaf("SIZE", << "1" >>))
                                        \o Leaf("NAME", << "a" >>))
    /\ Misplaced(4)
    /\ files[1].errors = << >>
    /\ files[1].status = "valid"

----------------------------------------------------------------------------
(* Occurrence counts *)

RECURSIVE Rescaled(_)
\* the same declarations with other occurrence bounds: at least two of each
\* required child, no upper bound; `required` as the loader stored it
Rescaled(defs) ==
    [k \in 1..Len(defs) |->
        [defs[k] EXCEPT !.minOccurs = IF defs[k].required THEN 2 ELSE 0,
                        !.maxOccurs = 0,
                        !.structure = IF Present(defs[k].structure)
                                      THEN Structure(Rescaled(defs[k].structure.elements))
                                      ELSE defs[k].structure]]

\* the schema with the occurrence bounds of every declaration replaced
RescaledSchema(schema) ==
    [schema EXCEPT
        !.complexTypes = [t \in DOMAIN schema.complexTypes |->
                            [elements |-> Rescaled(schema.complexTypes[t].elements)]],
        !.rootElement = IF Present(schema.rootElement)
                        THEN RootElement(schema.rootElement.name,
                                 Structure(Rescaled(schema.rootElement.structure.elements)))
                        ELSE schema.rootElement]

\* the diagnostics of validateStructure on the listed file, were `schema` the
\* one installed
StructureUnder(schema) ==
    LET doc == parseFromString(files[1].file)
        expectedRoot == IF Present(schema.rootElement)
                        THEN schema.rootElement.name ELSE "POLYGONS"
    IN  DiagsOf(afterRootCheck(
            IF tagName(doc, 1) # expectedRoot
            THEN << Diag("Error de Estructura", "raiz",
                         << Seg(tagName(doc, 1), -1) >>, expectedRoot, << >>) >>
            ELSE << >>,
            validateElementDynamic(doc, 1, expectedRoot, schema,
                                   << Seg(expectedRoot, -1) >>)
            \o validateNoUnknownElements(doc, 1, schema)))

\* some parent of the validated document holds more than one element of a
\* tag declared with maxOccurs 1
ExceedsMaxOccurs ==
    \E p \in ParentEntries : \E k \in 1..Len(log[p].defs) :
        /\ log[p].defs[k].maxOccurs = 1
        /\ Cardinality(Matches(log[p].node, log[p].defs[k].name)) > 1

\* C28: the occurrence count of a declared child is checked only for "no
\* occurrence of a required child": the diagnostics do not depend on the
\* minOccurs and maxOccurs the loader stored, so more occurrences than
\* maxOccurs, or fewer than a minOccurs above 1, produce no diagnostic
C28_OccursNeverRead ==
    (Validated /\ Present(PARSED_SCHEMA) /\ WellFormed(files[1].file))
    => /\ files[1].errors = StructureUnder(RescaledSchema(PARSED_SCHEMA))
       /\ \A d \in DescentDiags :
             log[d].type = "Campo Requerido Faltante"
             => \E p \in ParentEntries :
                   /\ log[p].path = log[d].path
                   /\ DeclIndex(log[p].defs, log[d].name) > 0
                   /\ Matches(log[p].node, log[d].name) = {}

\* two GRID elements under POLYGONS, where GRID is declared once at most: both
\* are validated and the file is valid
C28_Witness ==
    /\ Validated
    /\ PARSED_SCHEMA = MmpSchema
    /\ files[1].file = Wrap("POLYGONS", Wrap("GRID", Leaf("SIZE", << "1" >>))
                                        \o Wrap("GRID", Leaf("SIZE", << "1" >>)))
    /\ ExceedsMaxOccurs
    /\ RescaledSchema(PARSED_SCHEMA).rootElement.structure.elements[1].minOccurs = 2
    /\ files[1].errors = << >>
    /\ files[1].status = "valid"

----------------------------------------------------------------------------
(* The number validateValue compares with the bounds *)

\* const numValue = baseType.includes('integer') ? parseInt(value) : parseFloat(value)
NumValueOf(value, baseType) ==
    IF Includes(baseType, "integer") THEN parseInt(value) ELSE parseFloat(value)

\* the call was for a numeric base type and the value passed its coercion check
AcceptedNumeric ==
    /\ vvDone
    /\ vvRules.baseType \in IntegerFamily \cup FloatFamily
    /\ ~FailsCoercion(vvValue, vvRules.baseType)
    /\ CountOf(vvErrors, "Tipo de Dato Invalido", "entero") = 0
    /\ CountOf(vvErrors, "Tipo de Dato Invalido", "decimal") = 0

\* C30: every value that passes the base type's coercion check of a numeric
\* base type converts to a number, not to NaN, for the range check, so that a
\* value below a numeric lower bound is reported as out of range
C30_AcceptedIsNumber ==
    AcceptedNumeric
    => /\ NumValueOf(vvValue, vvRules.baseType).t = "num"
       /\ (vvRules.restrictions.minInclusive.t = "num" /\ vvValue[1] = "-"
           /\ vvRules.restrictions.minInclusive.n >= 0)
          => CountOf(vvErrors, "Valor Fuera de Rango", "min") = 1

\* the same, for every accepted value but the lone "-"
C30_AcceptedButLoneSign ==
    (AcceptedNumeric /\ vvValue # << "-" >>)
    => /\ NumValueOf(vvValue, vvRules.baseType).t = "num"
       /\ (vvRules.restrictions.minInclusive.t = "num" /\ vvValue[1] = "-"
           /\ vvRules.restrictions.minInclusive.n >= 0
           /\ NumValueOf(vvValue, vvRules.baseType).n # 0)
          => CountOf(vvErrors, "Valor Fuera de Rango", "min") = 1

\* "-" under xs:float with minInclusive 0: accepted, NaN, no diagnostic
C30_Witness ==
    /\ AcceptedNumeric
    /\ vvValue = << "-" >>
    /\ vvRules.baseType = "xs:float"
    /\ vvRules.restrictions.minInclusive = parseValue(<< "0" >>, "xs:float")
    /\ NumValueOf(vvValue, vvRules.baseType) = NaN
    /\ vvErrors = << >>

----------------------------------------------------------------------------
(* validateFile over a list of files: the loop suspends at each read, and   *)
(* the handlers of the list run while a read is pending                     *)

MaxFiles == 3

\* the texts of the files a user can pick: a valid document, one without the
\* required GRID, and one with a tag left open
BatchDocs ==
    { Wrap("POLYGONS", Wrap("GRID", Leaf("SIZE", << "1" >>))),
      Wrap("POLYGONS", Leaf("TITLE", << "a" >>)),
      << Open("GRID") >> }

\* the suspended activation of validateFile: the loop index i (from 1), the
\* file whose read is pending (files[i].file, evaluated before the await) and
\* the files the loop has taken up so far
BatchFrame(i, file, seen) ==
    [fn |-> "validateFile", i |-> i, file |-> file, seen |-> seen]

\* the page with the schema loaded and no file listed
InitBatch ==
    /\ XSD_SCHEMA = TRUE
    /\ PARSED_SCHEMA = MmpSchema
    /\ files = << >>
    /\ log = << >>
    /\ previous = NoResult
    /\ vvValue = << >>
    /\ vvRules = TypeRules("", NoRestrictions)
    /\ vvErrors = << >>
    /\ vvDone = FALSE
    /\ xsdDocument = Null
    /\ calls = << >>

\* handleDrop / handleFileSelect: addFiles(newFiles) with one file that is not
\* listed yet (same name and size: the same file)
handleDrop ==
    /\ Len(files) < MaxFiles
    /\ \E d \in BatchDocs :
          /\ \A k \in 1..Len(files) : files[k].file # d
          /\ files' = Append(files, [file |-> d, status |-> "pending", errors |-> << >>])
    /\ log' = << >>
    /\ UNCHANGED << xsdDocument, calls, XSD_SCHEMA, PARSED_SCHEMA, previous,
                    vvValue, vvRules, vvErrors, vvDone >>

\* the loop from its test "i < files.length" to the next await, or to
\* showCombinedResults() when the test fails; `list` is the list as the
\* preceding statements left it
loopFrom(list, i, seen) ==
    IF i <= Len(list)
    THEN /\ files' = [list EXCEPT ![i].status = "validating"]
         /\ calls' = << BatchFrame(i, list[i].file, Append(seen, list[i].file)) >>
         /\ log' = << >>
    ELSE /\ files' = list
         /\ calls' = << >>
         /\ log' = << [Call("showCombinedResults", << >>, "", 0, << >>)
                         EXCEPT !.value = seen] >>

\* validateFile() up to its first await
startValidateFile ==
    /\ calls = << >>
    /\ Len(files) > 0
    /\ XSD_SCHEMA
    /\ loopFrom(files, 1, << >>)
    /\ UNCHANGED << xsdDocument, XSD_SCHEMA, PARSED_SCHEMA, previous,
                    vvValue, vvRules, vvErrors, vvDone >>

\* the loop body after the await, with the list `errors` to store: the
\* assignments to files[i], which throw a TypeError when files[i] is
\* undefined (in the try block, and again in the catch block, so that the
\* exception leaves validateFile), then the next round of the loop
resume(errors) ==
    /\ calls # << >>
    /\ calls[1].fn = "validateFile"
    /\ IF calls[1].i > Len(files)
       THEN /\ files' = files
            /\ calls' = << >>
            /\ log' = << Thrown("TypeError") >>
       ELSE loopFrom([files EXCEPT
                         ![calls[1].i].errors = storeErrors(@, errors),
                         ![calls[1].i].status = IF Len(errors) = 0
                                                THEN "valid" ELSE "invalid"],
                     calls[1].i + 1, calls[1].seen)
    /\ PARSED_SCHEMA' = schemaAfterValidation(PARSED_SCHEMA)
    /\ UNCHANGED << xsdDocument, XSD_SCHEMA, previous,
                    vvValue, vvRules, vvErrors, vvDone >>

\* reader.onload: the promise resolves with the text, which is validated
onload ==
    /\ calls # << >>
    /\ resume(DiagsOf(validateXMLAgainstSchema(calls[1].file)))

\* reader.onerror: the promise rejects, the catch block stores a read error
onerror ==
    /\ calls # << >>
    /\ resume(<< Diag("Error de Lectura", "lectura", << >>, "", << >>) >>)

NextBatch ==
    \/ handleDrop
    \/ startValidateFile
    \/ onload
    \/ onerror
    \/ removeFile
    \/ clearAllFiles

SpecBatch == InitBatch /\ [][NextBatch]_vars

\* validateFile has just finished: showCombinedResults() has run
Finished ==
    Len(log) = 1 /\ log[1].type = "call" /\ log[1].msg = "showCombinedResults"

\* the entry of a listed file is what validateFile leaves for that file
Settled(f) ==
    /\ f.status \in {"valid", "invalid"}
    /\ \/ f.errors = DiagsOf(validateXMLAgainstSchema(f.file))
       \/ f.errors = << Diag("Error de Lectura", "lectura", << >>, "", << >>) >>
    /\ f.status = "valid" <=> f.errors = << >>

\* C29: whatever removeFile, clearAllFiles and addFiles do while a read is
\* pending, when validateFile finishes every file of the list has status
\* valid or invalid, its errors are the result of validating its own content,
\* it is valid exactly when its errors are none, and no step writes to an
\* index of the list that no longer exists
C29_BatchConsistent ==
    /\ Finished => \A k \in 1..Len(files) : Settled(files[k])
    /\ ~(Len(log) = 1 /\ IsThrow(log[1]))

\* the page when files are only ever added to the list
NextAdding ==
    \/ handleDrop
    \/ startValidateFile
    \/ onload
    \/ onerror

SpecAdding == InitBatch /\ [][NextAdding]_vars

\* the same, checked where addFiles is the only handler that runs while a
\* read is pending; every file the loop took up is a file of the list
C29_AddingConsistent ==
    /\ Finished
       => /\ \A k \in 1..Len(files) : Settled(files[k])
          /\ log[1].value = [k \in 1..Len(files) |-> files[k].file]
    /\ ~(Len(log) = 1 /\ IsThrow(log[1]))

\* the first of two files was removed while it was being read: the second
\* file holds the first one's diagnostics and is never validated
C29_Witness ==
    /\ Finished
    /\ Len(files) = 1
    /\ files[1].file = Wrap("POLYGONS", Wrap("GRID", Leaf("SIZE", << "1" >>)))
    /\ log[1].value = << << Open("GRID") >> >>
    /\ files[1].status = "invalid"
    /\ files[1].errors = DiagsOf(validateXMLAgainstSchema(<< Open("GRID") >>))

====
